---- MODULE Spec2Model ----
(***************************************************************************)
(* Multi-modal ingestion pipeline of AI-Life-Coach: the analyze route,     *)
(* AnalyzeService (per-file processing, batch processing, aggregation,     *)
(* persistence), AIService.normalizeResponse and DBService.transaction.    *)
(***************************************************************************)
EXTENDS Integers, Sequences, FiniteSets, TLC

\* Bounds of the model: the longest image list, the longest audio list and
\* the largest number of files of a request.
MaxImages == 2
MaxAudios == 1
MaxFiles == 3

(***************************************************************************)
(* JavaScript values.  A value is a record tagged with its typeof; a       *)
(* string is a sequence of tokens, " " being the whitespace token.         *)
(***************************************************************************)
Undefined == [t |-> "undefined"]
Null == [t |-> "null"]
Str(s) == [t |-> "string", v |-> s]
Num(n) == [t |-> "number", v |-> n]
Bool(b) == [t |-> "boolean", v |-> b]
Arr(xs) == [t |-> "object", isArray |-> TRUE, v |-> xs]

\* Array.isArray(x)
IsArray(x) == x.t = "object" /\ "isArray" \in DOMAIN x

\* Boolean(x) of JavaScript: what filter(Boolean), !x, x || y test.
Truthy(x) ==
  CASE x.t = "string" -> x.v # <<>>
    [] x.t = "number" -> x.v # 0
    [] x.t = "boolean" -> x.v
    [] x.t = "object" -> TRUE
    [] OTHER -> FALSE

\* x || y
Or(x, y) == IF Truthy(x) THEN x ELSE y

RECURSIVE TrimStart(_)
TrimStart(s) == IF s # <<>> /\ Head(s) = " " THEN TrimStart(Tail(s)) ELSE s

RECURSIVE TrimEnd(_)
TrimEnd(s) ==
  IF s # <<>> /\ s[Len(s)] = " " THEN TrimEnd(SubSeq(s, 1, Len(s) - 1)) ELSE s

\* String.prototype.trim
Trim(s) == TrimEnd(TrimStart(s))

\* The paragraph separator "\n\n" of combinedTextParts.join('\n\n')
Separator == <<"\n\n">>

RECURSIVE Join(_)
Join(parts) ==
  IF parts = <<>> THEN <<>>
  ELSE IF Len(parts) = 1 THEN parts[1].v
  ELSE parts[1].v \o Separator \o Join(Tail(parts))

\* Array.prototype.filter(Boolean)
RECURSIVE FilterTruthy(_)
FilterTruthy(xs) ==
  IF xs = <<>> THEN <<>>
  ELSE IF Truthy(Head(xs)) THEN <<Head(xs)>> \o FilterTruthy(Tail(xs))
  ELSE FilterTruthy(Tail(xs))

(***************************************************************************)
(* Requests.                                                               *)
(***************************************************************************)
\* req.body.text as it may arrive: absent, null, empty, whitespace-only,
\* non-blank with surrounding whitespace, non-blank.
RequestTexts ==
  {Undefined, Null, Str(<<>>), Str(<<" ">>), Str(<<" ", "buy milk", " ">>),
   Str(<<"buy milk">>)}

ImageMime == "image/png"
AudioMime == "audio/webm"
OtherMime == "text/plain"

\* mimetype.startsWith('image/'), mimetype.startsWith('audio/')
IsImageMime(m) == m = ImageMime
IsAudioMime(m) == m = AudioMime

\* A multer file object of field `kind` at position i of its list.
File(kind, i, mime) ==
  [originalname |-> kind \o ToString(i), path |-> "uploads/" \o kind \o ToString(i),
   mimetype |-> mime]

SeqsUpTo(S, n) == UNION {[1..k -> S] : k \in 0..n}

FileLists(kind, mimes, n) ==
  {[i \in DOMAIN ms |-> File(kind, i, ms[i])] : ms \in SeqsUpTo(mimes, n)}

ImageLists == FileLists("image", {ImageMime, OtherMime}, MaxImages)
AudioLists == FileLists("audio", {AudioMime, OtherMime}, MaxAudios)

\* The requests explored: every text without files, and with files a
\* whitespace-only text and a non-blank text.
TextsWithFiles == {Str(<<" ">>), Str(<<" ", "buy milk", " ">>)}

Requests ==
  {r \in [text : RequestTexts, image : ImageLists, audio : AudioLists] :
     /\ Len(r.image) + Len(r.audio) <= MaxFiles
     /\ (Len(r.image) = 0 /\ Len(r.audio) = 0) \/ r.text \in TextsWithFiles}

RECURSIVE Paths(_)
Paths(files) == IF files = <<>> THEN {} ELSE {Head(files).path} \cup Paths(Tail(files))


\* obj.name of an object that may lack the property
Field(obj, name) == IF name \in DOMAIN obj THEN obj[name] ELSE Undefined

(***************************************************************************)
(* External services, as the replies they can give.                        *)
(***************************************************************************)
\* storageService.uploadToCOS: resolves with { url } or throws.
UploadReplies == {"ok", "throw"}
CosUrl(file) == Str(<<"cos://", file.path>>)

\* The vision endpoint: the call throws (network, timeout, bad JSON, empty
\* content) or yields a JSON object with ocr_text and summary.
ImageApiReplies ==
  {[throw |-> TRUE]} \cup
  {[throw |-> FALSE, ocr_text |-> o, summary |-> s] :
     o \in {Null, Str(<<>>), Str(<<"ocr">>)}, s \in {Null, Str(<<"summary">>)}}

ErrImageApi == Str(<<"image api error">>)

\* imageAIService.analyzeImage: never throws, reports failure in-band.
AnalyzeImage(reply) ==
  IF reply.throw
  THEN [t |-> "object", ocr_text |-> Null, summary |-> Null, error |-> ErrImageApi]
  ELSE [t |-> "object", ocr_text |-> Or(reply.ocr_text, Null),
        summary |-> Or(reply.summary, Null)]

\* The transcription endpoint: the call throws or yields { text }.
AudioApiReplies ==
  {[throw |-> TRUE]} \cup
  {[throw |-> FALSE, text |-> x] : x \in {Undefined, Str(<<>>), Str(<<" ">>), Str(<<"speech">>)}}

ErrAudioApi == Str(<<"audio api error">>)
ErrAudioEmpty == Str(<<"transcription api returned no text">>)

\* audioAIService.transcribeAudio: never throws, reports failure in-band.
TranscribeAudio(reply) ==
  IF reply.throw
  THEN [t |-> "object", transcribed_text |-> Null, error |-> ErrAudioApi]
  ELSE IF ~Truthy(reply.text)
  THEN [t |-> "object", transcribed_text |-> Null, error |-> ErrAudioEmpty]
  ELSE [t |-> "object", transcribed_text |-> reply.text]

(***************************************************************************)
(* File Processor: processImageFile / processAudioFile.  A task is the     *)
(* promise of one call: its position (pc), the cosUrl local, whether the   *)
(* extractor's in-band error was logged (console.warn) and, once settled,  *)
(* the allSettled result.                                                  *)
(***************************************************************************)
ErrNotImage(file) == Str(<<"file", file.originalname, "is not an image">>)
ErrNotAudio(file) == Str(<<"file", file.originalname, "is not an audio">>)

Fulfilled(value) == [status |-> "fulfilled", value |-> value]

\* Mutant of ErrorOutcome: the failure keeps an attachment for the file.
ErrorOutcomeWithAttachment(file, message) ==
  [t |-> "object", text |-> Null,
   attachment |-> [t |-> "object", file |-> file, cosUrl |-> Null,
                   ocr_text |-> Null, processed |-> FALSE],
   filePath |-> file.path, error |-> message]

\* The catch block of processImageFile / processAudioFile.
ErrorOutcome(file, message) ==
  [t |-> "object", text |-> Null, attachment |-> Null, filePath |-> file.path,
   error |-> message]

Pending(pc) == [pc |-> pc, cosUrl |-> Null, warned |-> FALSE, result |-> Null]
Settled(task, warned, result) ==
  [pc |-> "settled", cosUrl |-> task.cosUrl, warned |-> warned, result |-> result]

\* Mutant of StartImageFile: the media type is not checked.
StartImageFileUnchecked(file) == Pending("uploading")

\* processImageFile up to its first await.
StartImageFile(file) ==
  IF ~IsImageMime(file.mimetype)
  THEN Settled(Pending("unstarted"), FALSE, Fulfilled(ErrorOutcome(file, ErrNotImage(file))))
  ELSE Pending("uploading")

\* processAudioFile up to its first await.
StartAudioFile(file) ==
  IF ~IsAudioMime(file.mimetype)
  THEN Settled(Pending("unstarted"), FALSE, Fulfilled(ErrorOutcome(file, ErrNotAudio(file))))
  ELSE Pending("uploading")

ErrUpload == Str(<<"COS upload failed">>)

\* Mutant of AfterUpload: a failed upload is not swallowed but fails the file.
AfterUploadPropagates(file, reply) ==
  IF reply = "ok"
  THEN [pc |-> "extracting", cosUrl |-> CosUrl(file), warned |-> FALSE, result |-> Null]
  ELSE [pc |-> "settled", cosUrl |-> Null, warned |-> FALSE,
        result |-> Fulfilled(ErrorOutcome(file, ErrUpload))]

\* The inner try/catch around the upload: the url, or null when it threw.
AfterUpload(file, reply) ==
  [pc |-> "extracting", cosUrl |-> IF reply = "ok" THEN CosUrl(file) ELSE Null,
   warned |-> FALSE, result |-> Null]

\* Mutant of ImageOutcome: an in-band extractor error is thrown and becomes
\* an error outcome.
ImageOutcomeErrorThrown(file, cosUrl, imageResult) ==
  IF Truthy(Field(imageResult, "error"))
  THEN ErrorOutcome(file, imageResult.error)
  ELSE [t |-> "object",
        text |-> Or(Or(imageResult.ocr_text, imageResult.summary), Null),
        attachment |-> [t |-> "object", file |-> file, cosUrl |-> cosUrl,
                        ocr_text |-> Or(imageResult.ocr_text, Null),
                        processed |-> Truthy(imageResult.ocr_text)],
        filePath |-> file.path]

\* Mutant of ImageOutcome: processed tells whether any text was extracted,
\* the summary included.
ImageOutcomeProcessedByText(file, cosUrl, imageResult) ==
  [t |-> "object",
   text |-> Or(Or(imageResult.ocr_text, imageResult.summary), Null),
   attachment |-> [t |-> "object", file |-> file, cosUrl |-> cosUrl,
                   ocr_text |-> Or(imageResult.ocr_text, Null),
                   processed |-> Truthy(Or(imageResult.ocr_text, imageResult.summary))],
   filePath |-> file.path]

\* processImageFile after analyzeImage returned imageResult.
ImageOutcome(file, cosUrl, imageResult) ==
  [t |-> "object",
   text |-> Or(Or(imageResult.ocr_text, imageResult.summary), Null),
   attachment |-> [t |-> "object", file |-> file, cosUrl |-> cosUrl,
                   ocr_text |-> Or(imageResult.ocr_text, Null),
                   processed |-> Truthy(imageResult.ocr_text)],
   filePath |-> file.path]

\* processAudioFile after transcribeAudio returned audioResult.
AudioOutcome(file, cosUrl, audioResult) ==
  LET transcribedText == Or(audioResult.transcribed_text, Null) IN
  [t |-> "object",
   text |-> transcribedText,
   attachment |-> [t |-> "object", file |-> file, cosUrl |-> cosUrl,
                   transcribed_text |-> Or(transcribedText, Null),
                   processed |-> Truthy(transcribedText)],
   filePath |-> file.path]

(***************************************************************************)
(* Batch Processor: the forEach over the allSettled results.               *)
(***************************************************************************)
\* Mutant of EmptyBatch: the result of an empty batch has no failure list.
EmptyBatchNoFailures == [texts |-> <<>>, attachments |-> <<>>]

\* return { texts: [], attachments: [], failedFiles: [] }
EmptyBatch == [texts |-> <<>>, attachments |-> <<>>, failedFiles |-> <<>>]

ErrProcessing == Str(<<"processing failed">>)

\* One iteration of results.forEach((result, index) => ...)
CollectOne(acc, result, file) ==
  IF result.status = "fulfilled"
  THEN LET data == result.value IN
       IF Truthy(Field(data, "error"))
       THEN [acc EXCEPT !.failedFiles =
               Append(@, [filename |-> file.originalname, error |-> data.error])]
       ELSE [texts |-> IF Truthy(data.text) THEN Append(acc.texts, data.text)
                       ELSE acc.texts,
             attachments |-> IF Truthy(data.attachment)
                             THEN Append(acc.attachments, data.attachment)
                             ELSE acc.attachments,
             failedFiles |-> acc.failedFiles]
  ELSE [acc EXCEPT !.failedFiles =
          Append(@, [filename |-> file.originalname,
                     error |-> Or(Field(result.reason, "message"), ErrProcessing)])]

RECURSIVE CollectUpTo(_, _, _)
CollectUpTo(tasks, files, n) ==
  IF n = 0 THEN EmptyBatch
  ELSE CollectOne(CollectUpTo(tasks, files, n - 1), tasks[n].result, files[n])

\* Mutant of Collect: the batch is joined with Promise.all semantics, the
\* first failure discards the outcomes of the other files.
CollectFailFast(tasks, files) ==
  LET failed == {i \in DOMAIN tasks : Truthy(Field(tasks[i].result.value, "error"))} IN
  IF failed = {} THEN CollectUpTo(tasks, files, Len(files))
  ELSE LET i == CHOOSE j \in failed : \A k \in failed : j <= k IN
       [texts |-> <<>>, attachments |-> <<>>,
        failedFiles |-> <<[filename |-> files[i].originalname,
                           error |-> tasks[i].result.value.error]>>]

\* processImages / processAudios after Promise.allSettled resolved.
Collect(tasks, files) == CollectUpTo(tasks, files, Len(files))

AllSettled(tasks) == \A i \in DOMAIN tasks : tasks[i].pc = "settled"

(***************************************************************************)
(* Structured Analyzer: AIService.analyzeContent and normalizeResponse.    *)
(***************************************************************************)
AllowedTypes == {<<"todo">>, <<"idea">>, <<"mood">>}

\* The JSON objects the model endpoint may return (keys `type` and `content`).
AnalyzerJsons ==
  {[type |-> Str(<<"todo">>), content |-> Null],
   [type |-> Str(<<"mood">>), content |-> Str(<<"content">>)],
   [type |-> Str(<<"task">>), content |-> Str(<<"content">>)],
   [type |-> Null, content |-> Null],
   [type |-> Num(1), content |-> Null]}

\* The chat-completions call: it throws, or answers with an empty content, a
\* content that is not JSON, or a JSON object.
AnalyzerReplies ==
  {[kind |-> k] : k \in {"throw", "empty", "nonjson"}} \cup
  {[kind |-> "json", json |-> j] : j \in AnalyzerJsons}

ErrAnalyzerCall == [t |-> "object", message |-> Str(<<"analyzer request failed">>)]
ErrEmptyContent == [t |-> "object", message |-> Str(<<"AI returned empty content">>)]
ErrNonJson ==
  [t |-> "object", message |-> Str(<<"AI returned non-JSON">>), statusCode |-> Num(500)]
ErrInvalidAnalysis == [t |-> "object", message |-> Str(<<"AI analysis result invalid">>)]
ErrNoText == [t |-> "object", message |-> Str(<<"no analyzable text content">>)]
ErrNoEntryId == [t |-> "object", message |-> Str(<<"database returned no entry id">>)]
ErrDb(what) == [t |-> "object", message |-> Str(<<"database error", what>>)]

\* Mutant of NormalizeEnum: a value outside the enumeration is replaced by a
\* guessed member instead of the fallback.
NormalizeEnumGuess(value, allowed, fallback) ==
  IF value.t = "string" /\ value.v \in allowed THEN value
  ELSE Str(CHOOSE v \in allowed : TRUE)

\* normalizeEnum(value, allowed, fallback)
NormalizeEnum(value, allowed, fallback) ==
  IF value.t = "string" /\ value.v \in allowed THEN value ELSE fallback

\* normalizeString(value)
NormalizeString(value) == IF value.t = "string" THEN value ELSE Null

\* .slice(0, 5) of normalizeStringArray
MaxArrayEntries == 5

\* Array.prototype.slice(0, n)
Slice(xs, n) == SubSeq(xs, 1, IF Len(xs) < n THEN Len(xs) ELSE n)

\* typeof v === 'string' && v.trim()
NonBlankString(v) == v.t = "string" /\ Trim(v.v) # <<>>

\* .filter((v) => typeof v === 'string' && v.trim())
RECURSIVE FilterNonBlankStrings(_)
FilterNonBlankStrings(xs) ==
  IF xs = <<>> THEN <<>>
  ELSE IF NonBlankString(Head(xs))
       THEN <<Head(xs)>> \o FilterNonBlankStrings(Tail(xs))
       ELSE FilterNonBlankStrings(Tail(xs))

\* .map((v) => v.trim())
TrimAll(xs) == [i \in DOMAIN xs |-> Str(Trim(xs[i].v))]

\* Mutant of NormalizeStringArray: the array is cut to 5 entries before the
\* blank and non-string entries are removed.
NormalizeStringArraySliceFirst(value) ==
  IF ~IsArray(value) THEN Arr(<<>>)
  ELSE Arr(TrimAll(FilterNonBlankStrings(Slice(value.v, MaxArrayEntries))))

\* Mutant of NormalizeStringArray: the entries are kept as they came, untrimmed.
NormalizeStringArrayNoTrim(value) ==
  IF ~IsArray(value) THEN Arr(<<>>)
  ELSE Arr(Slice(FilterNonBlankStrings(value.v), MaxArrayEntries))

\* normalizeStringArray(value)
NormalizeStringArray(value) ==
  IF ~IsArray(value) THEN Arr(<<>>)
  ELSE Arr(Slice(TrimAll(FilterNonBlankStrings(value.v)), MaxArrayEntries))

\* Number(value).  NaN is the one number that is not finite here: JSON holds
\* no Infinity.  A string converts when, trimmed, it is empty or a decimal
\* numeral (one token per digit); an array converts as its elements joined by
\* commas do.
NaN == [t |-> "number", nan |-> TRUE]
IsFinite(n) == n.t = "number" /\ "nan" \notin DOMAIN n

Digits == <<"0", "1", "2", "3", "4", "5", "6", "7", "8", "9">>
IsDigit(c) == \E d \in DOMAIN Digits : Digits[d] = c
DigitValue(c) == (CHOOSE d \in DOMAIN Digits : Digits[d] = c) - 1

RECURSIVE Numeral(_)
Numeral(s) == IF s = <<>> THEN 0 ELSE 10 * Numeral(SubSeq(s, 1, Len(s) - 1)) + DigitValue(s[Len(s)])

StringToNumber(s) ==
  LET digits == IF Trim(s) # <<>> /\ Head(Trim(s)) = "-" THEN Tail(Trim(s)) ELSE Trim(s) IN
  IF Trim(s) = <<>> THEN Num(0)
  ELSE IF digits # <<>> /\ \A k \in DOMAIN digits : IsDigit(digits[k])
       THEN Num(IF digits = Trim(s) THEN Numeral(digits) ELSE 0 - Numeral(digits))
       ELSE NaN

ToNumber(value) ==
  CASE value.t = "number" -> value
    [] value.t = "null" -> Num(0)
    [] value.t = "boolean" -> Num(IF value.v THEN 1 ELSE 0)
    [] value.t = "string" -> StringToNumber(value.v)
    [] IsArray(value) ->
         IF value.v = <<>> THEN Num(0)
         ELSE IF Len(value.v) > 1 THEN NaN
         ELSE IF value.v[1].t \in {"null", "undefined"} THEN Num(0)
         ELSE IF value.v[1].t = "number" THEN value.v[1]
         ELSE IF value.v[1].t = "string" THEN StringToNumber(value.v[1].v)
         ELSE NaN
    [] OTHER -> NaN

\* normalizeNumber(value)
NormalizeNumber(value) ==
  LET n == ToNumber(value) IN IF IsFinite(n) THEN n ELSE Null

\* normalizeBool(value)
NormalizeBool(value) == IF value.t = "boolean" THEN value ELSE Null

\* Mutant of NormalizeResponse: the type is passed through unvalidated.
NormalizeResponseRawType(json) ==
  [t |-> "object", type |-> json.type,
   title |-> NormalizeString(Field(json, "title")),
   content |-> NormalizeString(json.content),
   summary |-> NormalizeString(Field(json, "summary")),
   keywords |-> NormalizeStringArray(Field(json, "keywords")),
   tags |-> NormalizeStringArray(Field(json, "tags")),
   reminders |-> NormalizeStringArray(Field(json, "reminders")),
   completed |-> NormalizeBool(Field(json, "completed")),
   intensity |-> NormalizeNumber(Field(json, "intensity"))]

\* normalizeResponse(response) for a response whose content parsed as JSON
\* (the fields the route reports, reminders and intensity).
NormalizeResponse(json) ==
  [t |-> "object",
   type |-> NormalizeEnum(json.type, AllowedTypes, Null),
   title |-> NormalizeString(Field(json, "title")),
   content |-> NormalizeString(json.content),
   summary |-> NormalizeString(Field(json, "summary")),
   keywords |-> NormalizeStringArray(Field(json, "keywords")),
   tags |-> NormalizeStringArray(Field(json, "tags")),
   reminders |-> NormalizeStringArray(Field(json, "reminders")),
   completed |-> NormalizeBool(Field(json, "completed")),
   intensity |-> NormalizeNumber(Field(json, "intensity"))]

\* Mutant of EntryData: the content is the analyzer's content only.
EntryDataAnalyzerContent(analysisResult) ==
  [type |-> analysisResult.type,
   title |-> Or(analysisResult.title, Null),
   content |-> Or(analysisResult.content, Null),
   summary |-> Or(analysisResult.summary, Null),
   keywords |-> Or(analysisResult.keywords, Arr(<<>>)),
   tags |-> Or(analysisResult.tags, Arr(<<>>)),
   completed |-> Or(analysisResult.completed, Null),
   intensity |-> Or(analysisResult.intensity, Null),
   reminders |-> IF IsArray(analysisResult.reminders)
                 THEN analysisResult.reminders ELSE Arr(<<>>)]

\* analyzeContent step 4: entryData built from the analysis result.
EntryData(analysisResult) ==
  [type |-> analysisResult.type,
   title |-> Or(analysisResult.title, Null),
   content |-> Or(Or(analysisResult.content, analysisResult.combinedText), Null),
   summary |-> Or(analysisResult.summary, Null),
   keywords |-> Or(analysisResult.keywords, Arr(<<>>)),
   tags |-> Or(analysisResult.tags, Arr(<<>>)),
   completed |-> Or(analysisResult.completed, Null),
   intensity |-> Or(analysisResult.intensity, Null),
   reminders |-> IF IsArray(analysisResult.reminders)
                 THEN analysisResult.reminders ELSE Arr(<<>>)]

\* Mutant of CombinedTextParts: the audio texts are placed before the image texts.
CombinedTextPartsAudioFirst(text, imageTexts, audioTexts) ==
  FilterTruthy(<<text>> \o audioTexts \o imageTexts)

\* The parts of analyzeCombinedInput: [textInput, ...imageTexts, ...audioTexts].filter(Boolean)
CombinedTextParts(text, imageTexts, audioTexts) ==
  FilterTruthy(<<text>> \o imageTexts \o audioTexts)

(***************************************************************************)
(* Transactional Writer: the rows saveEntryWithAttachments inserts.        *)
(***************************************************************************)
ImageAttachmentData(entryId, attachment, i) ==
  [entry_id |-> entryId, input_type |-> "image", file_path |-> Str(<<attachment.file.path>>),
   file_url |-> attachment.cosUrl, mime_type |-> attachment.file.mimetype,
   raw_text |-> Null, transcribed_text |-> Null, ocr_text |-> attachment.ocr_text,
   processed |-> attachment.processed, display_order |-> i]

\* Mutant of AudioAttachmentData: display_order restarts at 0 for audio.
AudioAttachmentDataNoOffset(entryId, attachment, imageCount, i) ==
  [entry_id |-> entryId, input_type |-> "audio", file_path |-> Str(<<attachment.file.path>>),
   file_url |-> attachment.cosUrl, mime_type |-> attachment.file.mimetype,
   raw_text |-> Null, transcribed_text |-> attachment.transcribed_text, ocr_text |-> Null,
   processed |-> attachment.processed, display_order |-> i]

AudioAttachmentData(entryId, attachment, imageCount, i) ==
  [entry_id |-> entryId, input_type |-> "audio", file_path |-> Str(<<attachment.file.path>>),
   file_url |-> attachment.cosUrl, mime_type |-> attachment.file.mimetype,
   raw_text |-> Null, transcribed_text |-> attachment.transcribed_text, ocr_text |-> Null,
   processed |-> attachment.processed, display_order |-> imageCount + i]

\* Mutant of TextAttachmentData: the text row is written like a file row,
\* unprocessed and without its raw text.
TextAttachmentDataUnprocessed(entryId, text, imageCount, audioCount) ==
  [entry_id |-> entryId, input_type |-> "text", file_path |-> Null, file_url |-> Null,
   mime_type |-> "text/plain", raw_text |-> Null, transcribed_text |-> Null,
   ocr_text |-> Null, processed |-> FALSE, display_order |-> imageCount + audioCount]

TextAttachmentData(entryId, text, imageCount, audioCount) ==
  [entry_id |-> entryId, input_type |-> "text", file_path |-> Null, file_url |-> Null,
   mime_type |-> "text/plain", raw_text |-> text, transcribed_text |-> Null,
   ocr_text |-> Null, processed |-> TRUE, display_order |-> imageCount + audioCount]

\* The position after the image loop (k = 0) or after audio attachment k - 1.
AfterImages(audioAttachments, text) ==
  IF Len(audioAttachments) > 0 THEN [pc |-> "audio", i |-> 0]
  ELSE IF Truthy(text) THEN [pc |-> "text", i |-> 0]
  ELSE [pc |-> "commit", i |-> 0]

AfterEntry(imageAttachments, audioAttachments, text) ==
  IF Len(imageAttachments) > 0 THEN [pc |-> "image", i |-> 0]
  ELSE AfterImages(audioAttachments, text)

AfterAudios(text) ==
  IF Truthy(text) THEN [pc |-> "text", i |-> 0] ELSE [pc |-> "commit", i |-> 0]

(***************************************************************************)
(* State of one request to POST /api/analyze.                              *)
(***************************************************************************)
VARIABLES
  req,            \* the request: body.text, files.image, files.audio
  pc,             \* position of the route handler / analyzeContent
  textInput,      \* the route's textInput
  localFiles,     \* paths of the multer temp files that exist on disk
  imgTasks,       \* the promises of processImageFile, in input order
  audTasks,       \* the promises of processAudioFile, in input order
  imageResults,   \* what processImages returned (Null before)
  audioResults,   \* what processAudios returned (Null before)
  analysis,       \* combinedText, the analyzer's reply and analysisResult
  tx,             \* the open transaction of DBService.transaction
  db,             \* the committed rows of entries and entry_attachments
  calls,          \* number of calls made to each external collaborator
  outcome         \* result or error of analyzeContent, and the HTTP response

(***************************************************************************)
(* State of the front end: the useAudioRecorder hook, the browser objects  *)
(* it drives, and the file lists of App.  A recorder, its stream and its   *)
(* blob are named by the number of the startRecording call that made them. *)
(***************************************************************************)
\* Bound: the number of startRecording calls of a session.
MaxStarts == 2

\* Bound: the largest number of files picked in one file dialog.
MaxPicked == 6

StartCalls == 1..MaxStarts

\* null, where a state or a ref holds the number of a startRecording call.
None == 0

VARIABLES
  recordingState,    \* useState: 'idle', 'recording', 'paused', 'stopped'
  audioBlob,         \* useState: the blob of recorder k, or None
  recordingError,    \* useState `error` (App calls it recordingError)
  mediaRecorderRef,  \* mediaRecorderRef.current: a recorder, or None
  streamRef,         \* streamRef.current: a stream, or None
  timerRef,          \* timerRef.current holds the id of a running interval
  recorders,         \* MediaRecorder k: its state, a queued stop event, and
                     \* the recordingState its handlers closed over
  streams,           \* MediaStream k: requested, live or ended
  intervals,         \* number of setInterval timers that are running
  startCalls,        \* number of startRecording calls made so far
  imageFiles,        \* App useState
  audioFiles,        \* App useState: picked files (None) and recordings (k)
  processedBlobRef   \* App processedBlobRef.current

hookVars ==
  <<recordingState, audioBlob, recordingError, mediaRecorderRef, streamRef, timerRef,
    recorders, streams, intervals, startCalls>>

pageVars == <<hookVars, imageFiles, audioFiles, processedBlobRef>>

serverVars ==
  <<req, pc, textInput, localFiles, imgTasks, audTasks, imageResults, audioResults,
    analysis, tx, db, calls, outcome>>

vars == <<serverVars, pageVars>>

\* The page as it is mounted: nothing recorded, nothing picked.
Mounted ==
  /\ recordingState = "idle"
  /\ audioBlob = None
  /\ recordingError = "none"
  /\ mediaRecorderRef = None
  /\ streamRef = None
  /\ timerRef = FALSE
  /\ recorders = [k \in StartCalls |->
                    [state |-> "none", stopQueued |-> FALSE, closure |-> "idle"]]
  /\ streams = [k \in StartCalls |-> "none"]
  /\ intervals = 0
  /\ startCalls = 0
  /\ imageFiles = <<>>
  /\ audioFiles = <<>>
  /\ processedBlobRef = None


NoTx ==
  [pc |-> "idle", i |-> 0, entries |-> <<>>, attachments |-> <<>>, savedEntry |-> Null,
   error |-> Null, held |-> FALSE, released |-> 0]

NoOutcome == [result |-> Null, error |-> Null, status |-> 0, body |-> Null]

Init ==
  /\ req \in Requests
  /\ pc = "Validating"
  /\ textInput = Null
  /\ localFiles = Paths(req.image) \cup Paths(req.audio)
  /\ imgTasks = <<>>
  /\ audTasks = <<>>
  /\ imageResults = Null
  /\ audioResults = Null
  /\ analysis = [combinedText |-> Null, reply |-> Null, result |-> Null]
  /\ tx = NoTx
  /\ db = [entries |-> <<>>, attachments |-> <<>>, nextId |-> 1]
  /\ calls = [upload |-> 0, image |-> 0, audio |-> 0, analyzer |-> 0, db |-> 0]
  /\ outcome = NoOutcome
  /\ Mounted

\* Mutant of RouteTextInput: the text is not trimmed.
RouteTextInputNoTrim(text) ==
  IF text.t = "string" THEN Or(text, Null) ELSE Null

\* req.body?.text?.trim() || null
RouteTextInput(text) ==
  IF text.t = "string" THEN Or(Str(Trim(text.v)), Null) ELSE Null

MsgInputEmpty == Str(<<"provide at least one of text, image or audio">>)

(***************************************************************************)
(* Route: extraction and validation of the request (Validating).           *)
(***************************************************************************)
Validate ==
  /\ pc = "Validating"
  /\ LET text == RouteTextInput(req.text) IN
     /\ textInput' = text
     /\ IF ~Truthy(text) /\ Len(req.image) = 0 /\ Len(req.audio) = 0
        THEN /\ outcome' = [outcome EXCEPT !.status = 400,
                              !.body = [success |-> FALSE, message |-> MsgInputEmpty]]
             /\ pc' = "Rejected"
        ELSE /\ outcome' = outcome
             /\ pc' = "ProcessImages"
  /\ UNCHANGED <<req, localFiles, imgTasks, audTasks, imageResults, audioResults,
                 analysis, tx, db, calls>>

(***************************************************************************)
(* ProcessingMedia: analyzeContent steps 1 and 2.                          *)
(***************************************************************************)
Uploading(tasks) == Cardinality({i \in DOMAIN tasks : tasks[i].pc = "uploading"})

\* Mutant of StartImages: both batches are started together, as with
\* Promise.all([processImages(...), processAudios(...)]).
StartImagesAndAudios ==
  /\ pc = "ProcessImages"
  /\ Len(req.image) > 0
  /\ imgTasks' = [i \in DOMAIN req.image |-> StartImageFile(req.image[i])]
  /\ audTasks' = [i \in DOMAIN req.audio |-> StartAudioFile(req.audio[i])]
  /\ calls' = [calls EXCEPT !.upload = @ + Uploading(imgTasks') + Uploading(audTasks')]
  /\ pc' = "AwaitImages"
  /\ UNCHANGED <<req, textInput, localFiles, imageResults, audioResults, analysis, tx,
                 db, outcome>>

\* await this.processImages(imageFiles): every processImageFile is called
\* and runs to its first await.
StartImages ==
  /\ pc = "ProcessImages"
  /\ IF Len(req.image) = 0
     THEN /\ imageResults' = EmptyBatch
          /\ pc' = "ProcessAudios"
          /\ UNCHANGED <<imgTasks, calls>>
     ELSE /\ imgTasks' = [i \in DOMAIN req.image |-> StartImageFile(req.image[i])]
          /\ calls' = [calls EXCEPT !.upload = @ + Uploading(imgTasks')]
          /\ pc' = "AwaitImages"
          /\ UNCHANGED imageResults
  /\ UNCHANGED <<req, textInput, localFiles, audTasks, audioResults, analysis, tx, db,
                 outcome>>

\* The upload of image i resolves or throws; analyzeImage is called.
ImageUploadReturns(i) ==
  /\ pc = "AwaitImages"
  /\ imgTasks[i].pc = "uploading"
  /\ \E reply \in UploadReplies :
       imgTasks' = [imgTasks EXCEPT ![i] = AfterUpload(req.image[i], reply)]
  /\ calls' = [calls EXCEPT !.image = @ + 1]
  /\ UNCHANGED <<req, pc, textInput, localFiles, audTasks, imageResults, audioResults,
                 analysis, tx, db, outcome>>

\* analyzeImage of image i returns; processImageFile resolves.
ImageExtractorReturns(i) ==
  /\ pc = "AwaitImages"
  /\ imgTasks[i].pc = "extracting"
  /\ \E reply \in ImageApiReplies :
       LET imageResult == AnalyzeImage(reply) IN
       imgTasks' = [imgTasks EXCEPT ![i] =
         Settled(@, Truthy(Field(imageResult, "error")),
                 Fulfilled(ImageOutcome(req.image[i], @.cosUrl, imageResult)))]
  /\ UNCHANGED <<req, pc, textInput, localFiles, audTasks, imageResults, audioResults,
                 analysis, tx, db, calls, outcome>>

\* Mutant of CollectImages: the lists are assembled from the outcomes that
\* are there, without waiting for the rest of the batch.
CollectImagesEarly ==
  /\ pc = "AwaitImages"
  /\ \E n \in 0..Len(imgTasks) :
       /\ \A i \in 1..n : imgTasks[i].pc = "settled"
       /\ n < Len(imgTasks) => imgTasks[n + 1].pc # "settled"
       /\ imageResults' = CollectUpTo(imgTasks, req.image, n)
  /\ pc' = "ProcessAudios"
  /\ UNCHANGED <<req, textInput, localFiles, imgTasks, audTasks, audioResults, analysis,
                 tx, db, calls, outcome>>

\* Promise.allSettled of the image batch resolves; processImages returns.
CollectImages ==
  /\ pc = "AwaitImages"
  /\ AllSettled(imgTasks)
  /\ imageResults' = Collect(imgTasks, req.image)
  /\ pc' = "ProcessAudios"
  /\ UNCHANGED <<req, textInput, localFiles, imgTasks, audTasks, audioResults, analysis,
                 tx, db, calls, outcome>>

\* Mutant of StartAudios: the analyzer is called while the audio batch is
\* being started.
StartAudiosAndAnalyze ==
  /\ pc = "ProcessAudios"
  /\ IF Len(req.audio) = 0
     THEN /\ audioResults' = EmptyBatch
          /\ pc' = "Aggregating"
          /\ UNCHANGED <<audTasks, calls>>
     ELSE /\ audTasks' = [i \in DOMAIN req.audio |-> StartAudioFile(req.audio[i])]
          /\ calls' = [calls EXCEPT !.upload = @ + Uploading(audTasks'),
                                    !.analyzer = @ + 1]
          /\ pc' = "AwaitAudios"
          /\ UNCHANGED audioResults
  /\ UNCHANGED <<req, textInput, localFiles, imgTasks, imageResults, analysis, tx, db,
                 outcome>>

\* await this.processAudios(audioFiles)
StartAudios ==
  /\ pc = "ProcessAudios"
  /\ IF Len(req.audio) = 0
     THEN /\ audioResults' = EmptyBatch
          /\ pc' = "Aggregating"
          /\ UNCHANGED <<audTasks, calls>>
     ELSE /\ audTasks' = [i \in DOMAIN req.audio |-> StartAudioFile(req.audio[i])]
          /\ calls' = [calls EXCEPT !.upload = @ + Uploading(audTasks')]
          /\ pc' = "AwaitAudios"
          /\ UNCHANGED audioResults
  /\ UNCHANGED <<req, textInput, localFiles, imgTasks, imageResults, analysis, tx, db,
                 outcome>>

AudioUploadReturns(i) ==
  /\ pc = "AwaitAudios"
  /\ audTasks[i].pc = "uploading"
  /\ \E reply \in UploadReplies :
       audTasks' = [audTasks EXCEPT ![i] = AfterUpload(req.audio[i], reply)]
  /\ calls' = [calls EXCEPT !.audio = @ + 1]
  /\ UNCHANGED <<req, pc, textInput, localFiles, imgTasks, imageResults, audioResults,
                 analysis, tx, db, outcome>>

AudioExtractorReturns(i) ==
  /\ pc = "AwaitAudios"
  /\ audTasks[i].pc = "extracting"
  /\ \E reply \in AudioApiReplies :
       LET audioResult == TranscribeAudio(reply) IN
       audTasks' = [audTasks EXCEPT ![i] =
         Settled(@, Truthy(Field(audioResult, "error")),
                 Fulfilled(AudioOutcome(req.audio[i], @.cosUrl, audioResult)))]
  /\ UNCHANGED <<req, pc, textInput, localFiles, imgTasks, imageResults, audioResults,
                 analysis, tx, db, calls, outcome>>

CollectAudios ==
  /\ pc = "AwaitAudios"
  /\ AllSettled(audTasks)
  /\ audioResults' = Collect(audTasks, req.audio)
  /\ pc' = "Aggregating"
  /\ UNCHANGED <<req, textInput, localFiles, imgTasks, audTasks, imageResults, analysis,
                 tx, db, calls, outcome>>

(***************************************************************************)
(* Route: the response and the cleanup of the temp files.  Once            *)
(* analyzeContent has settled, the handler runs to its end without waiting *)
(* for anything but the unlink of its own temp files.                      *)
(***************************************************************************)
UploadedFilePaths == Paths(req.image) \cup Paths(req.audio)

RECURSIVE Filenames(_)
Filenames(failed) ==
  IF failed = <<>> THEN <<>> ELSE <<Head(failed).filename>> \o Filenames(Tail(failed))

\* analyzeContent resolved with `result`: steps 3 and 4 of the route, the 200
\* response and the unlink of every temp file.
Succeed(result) ==
  /\ outcome' = [result |-> result, error |-> Null, status |-> 200,
                 body |-> [success |-> TRUE,
                           data |-> [id |-> result.entry.id, type |-> result.entry.type,
                                     title |-> result.entry.title,
                                     summary |-> result.entry.summary,
                                     keywords |-> result.entry.keywords,
                                     tags |-> result.entry.tags],
                           warnings |-> Filenames(result.failedFiles)]]
  /\ localFiles' = localFiles \ UploadedFilePaths
  /\ pc' = "Done"

\* Mutant of Fail: the catch block answers without removing the temp files.
FailKeepsFiles(err) ==
  /\ outcome' = [result |-> Null, error |-> err,
                 status |-> Or(Field(err, "statusCode"), Num(500)).v,
                 body |-> [success |-> FALSE, message |-> err.message]]
  /\ localFiles' = localFiles
  /\ pc' = "Failed"

\* analyzeContent rejected with `err`: the route's catch block, the unlink of
\* every temp file and the error response.
Fail(err) ==
  /\ outcome' = [result |-> Null, error |-> err,
                 status |-> Or(Field(err, "statusCode"), Num(500)).v,
                 body |-> [success |-> FALSE, message |-> err.message]]
  /\ localFiles' = localFiles \ UploadedFilePaths
  /\ pc' = "Failed"

(***************************************************************************)
(* Aggregating and Analyzing: analyzeCombinedInput.                        *)
(***************************************************************************)
\* Mutant of Aggregate: the empty-corpus check is missing.
AggregateNoCheck ==
  /\ pc = "Aggregating"
  /\ LET parts == CombinedTextParts(textInput, imageResults.texts, audioResults.texts) IN
     analysis' = [analysis EXCEPT !.combinedText = Str(Join(parts))]
  /\ calls' = [calls EXCEPT !.analyzer = @ + 1]
  /\ pc' = "Analyzing"
  /\ UNCHANGED <<req, textInput, localFiles, imgTasks, audTasks, imageResults,
                 audioResults, tx, db, outcome>>

\* analyzeCombinedInput up to the await of aiService.analyzeContent.
Aggregate ==
  /\ pc = "Aggregating"
  /\ LET parts == CombinedTextParts(textInput, imageResults.texts, audioResults.texts) IN
     IF Len(parts) = 0
     THEN /\ Fail(ErrNoText)
          /\ UNCHANGED <<analysis, calls>>
     ELSE /\ analysis' = [analysis EXCEPT !.combinedText = Str(Join(parts))]
          /\ calls' = [calls EXCEPT !.analyzer = @ + 1]
          /\ pc' = "Analyzing"
          /\ UNCHANGED <<outcome, localFiles>>
  /\ UNCHANGED <<req, textInput, imgTasks, audTasks, imageResults,
                 audioResults, tx, db>>

\* aiService.analyzeContent settles; analyzeCombinedInput validates the result
\* and analyzeContent goes on to saveEntryWithAttachments (pool.connect()).
\* Mutant of AcceptReply: an empty or non-JSON response is replaced by a
\* default analysis instead of an error.
AcceptReplyWithDefault(reply) ==
  LET received == [analysis EXCEPT !.reply = reply] IN
  CASE reply.kind = "throw" -> Fail(ErrAnalyzerCall) /\ analysis' = received /\ tx' = tx
    [] OTHER ->
         LET json == IF reply.kind = "json" THEN reply.json
                     ELSE [type |-> Str(<<"idea">>), content |-> Null]
             analysisResult == NormalizeResponse(json)
         IN IF ~Truthy(analysisResult.type)
            THEN Fail(ErrInvalidAnalysis) /\ analysis' = received /\ tx' = tx
            ELSE /\ analysis' = [received EXCEPT !.result =
                      [combinedText |-> analysis.combinedText] @@ analysisResult]
                 /\ tx' = [NoTx EXCEPT !.pc = "connect"]
                 /\ pc' = "Persisting"
                 /\ UNCHANGED <<outcome, localFiles>>

AcceptReply(reply) ==
  LET received == [analysis EXCEPT !.reply = reply] IN
  CASE reply.kind = "throw" -> Fail(ErrAnalyzerCall) /\ analysis' = received /\ tx' = tx
    [] reply.kind = "empty" -> Fail(ErrEmptyContent) /\ analysis' = received /\ tx' = tx
    [] reply.kind = "nonjson" -> Fail(ErrNonJson) /\ analysis' = received /\ tx' = tx
    [] reply.kind = "json" ->
         LET analysisResult == NormalizeResponse(reply.json) IN
         IF ~Truthy(analysisResult.type)
         THEN Fail(ErrInvalidAnalysis) /\ analysis' = received /\ tx' = tx
         ELSE /\ analysis' = [received EXCEPT !.result =
                   [combinedText |-> analysis.combinedText] @@ analysisResult]
              /\ tx' = [NoTx EXCEPT !.pc = "connect"]
              /\ pc' = "Persisting"
              /\ UNCHANGED <<outcome, localFiles>>

AnalyzerReturns ==
  /\ pc = "Analyzing"
  /\ analysis.reply = Null
  /\ \E reply \in AnalyzerReplies : AcceptReply(reply)
  /\ UNCHANGED <<req, textInput, imgTasks, audTasks, imageResults,
                 audioResults, db, calls>>

\* The same step for a response that is already on its way.
ReplyArrives ==
  /\ pc = "Analyzing"
  /\ analysis.reply # Null
  /\ AcceptReply(analysis.reply)
  /\ UNCHANGED <<req, textInput, imgTasks, audTasks, imageResults,
                 audioResults, db, calls>>

(***************************************************************************)
(* Persisting: saveEntryWithAttachments inside DBService.transaction.      *)
(***************************************************************************)
DbReplies == {"ok", "throw"}

DbCall == calls' = [calls EXCEPT !.db = @ + 1]

\* A statement inside the try block threw: the catch block issues ROLLBACK.
TxThrow(err) == tx' = [tx EXCEPT !.pc = "rollback", !.error = err]

\* const client = await pool.connect()
TxConnect ==
  /\ pc = "Persisting" /\ tx.pc = "connect"
  /\ DbCall
  /\ \E reply \in DbReplies :
       IF reply = "ok"
       THEN /\ tx' = [tx EXCEPT !.pc = "begin", !.held = TRUE]
            /\ UNCHANGED <<pc, outcome, localFiles>>
       ELSE /\ tx' = [tx EXCEPT !.pc = "closed"]
            /\ Fail(ErrDb("connect"))
  /\ UNCHANGED <<req, textInput, imgTasks, audTasks, imageResults,
                 audioResults, analysis, db>>

\* await client.query('BEGIN')
TxBegin ==
  /\ pc = "Persisting" /\ tx.pc = "begin"
  /\ DbCall
  /\ \E reply \in DbReplies :
       IF reply = "ok" THEN tx' = [tx EXCEPT !.pc = "entry"] ELSE TxThrow(ErrDb("begin"))
  /\ UNCHANGED <<req, pc, textInput, localFiles, imgTasks, audTasks, imageResults,
                 audioResults, analysis, db, outcome>>

\* The row returned by INSERT INTO entries ... RETURNING *
EntryRow(id, entryData) ==
  [t |-> "object", id |-> id, type |-> entryData.type, title |-> entryData.title,
   content |-> entryData.content, summary |-> entryData.summary,
   keywords |-> entryData.keywords, tags |-> entryData.tags,
   reminders |-> entryData.reminders, completed |-> entryData.completed,
   intensity |-> entryData.intensity,
   deleted_at |-> Null]

\* The replies to INSERT INTO entries: a row with an id, no row, a row whose
\* id is falsy, or an error.  Ids are numbers and start at 1; NoId stands for
\* every id that fails the test !savedEntry.id.
NoId == 0
EntryReplies == DbReplies \cup {"norow", "noid"}

\* Mutant of TxInsertEntry: a row without an id is accepted and the
\* attachment inserts go on.
TxInsertEntryAcceptsNoId ==
  /\ pc = "Persisting" /\ tx.pc = "entry"
  /\ DbCall
  /\ \E reply \in EntryReplies :
       CASE reply = "ok" ->
              LET row == EntryRow(db.nextId, EntryData(analysis.result))
                  next == AfterEntry(imageResults.attachments, audioResults.attachments,
                                     textInput)
              IN /\ tx' = [tx EXCEPT !.pc = next.pc, !.i = next.i, !.savedEntry = row,
                                     !.entries = Append(@, row)]
                 /\ db' = [db EXCEPT !.nextId = @ + 1]
         [] reply = "norow" -> TxThrow(ErrNoEntryId) /\ UNCHANGED db
         [] reply = "noid" ->
              LET row == EntryRow(NoId, EntryData(analysis.result))
                  next == AfterEntry(imageResults.attachments, audioResults.attachments,
                                     textInput)
              IN /\ tx' = [tx EXCEPT !.pc = next.pc, !.i = next.i, !.savedEntry = row,
                                     !.entries = Append(@, row)]
                 /\ UNCHANGED db
         [] reply = "throw" -> TxThrow(ErrDb("insert entry")) /\ UNCHANGED db
  /\ UNCHANGED <<req, pc, textInput, localFiles, imgTasks, audTasks, imageResults,
                 audioResults, analysis, outcome>>

\* Mutant of TxInsertEntry: a record insert that fails is attempted a second
\* time.
TxInsertEntryRetries ==
  /\ pc = "Persisting" /\ tx.pc = "entry"
  /\ DbCall
  /\ \E reply \in EntryReplies :
       CASE reply = "ok" ->
              LET row == EntryRow(db.nextId, EntryData(analysis.result))
                  next == AfterEntry(imageResults.attachments, audioResults.attachments,
                                     textInput)
              IN /\ tx' = [tx EXCEPT !.pc = next.pc, !.i = next.i, !.savedEntry = row,
                                     !.entries = Append(@, row)]
                 /\ db' = [db EXCEPT !.nextId = @ + 1]
         [] reply = "norow" -> TxThrow(ErrNoEntryId) /\ UNCHANGED db
         [] reply = "noid" ->
              LET row == EntryRow(NoId, EntryData(analysis.result)) IN
              /\ tx' = [tx EXCEPT !.pc = "rollback", !.error = ErrNoEntryId,
                                  !.savedEntry = row, !.entries = Append(@, row)]
              /\ UNCHANGED db
         [] reply = "throw" ->
              IF calls.db = 2
              THEN UNCHANGED <<tx, db>>
              ELSE TxThrow(ErrDb("insert entry")) /\ UNCHANGED db
  /\ UNCHANGED <<req, pc, textInput, localFiles, imgTasks, audTasks, imageResults,
                 audioResults, analysis, outcome>>

\* createEntryWithClient and the check of savedEntry.id
TxInsertEntry ==
  /\ pc = "Persisting" /\ tx.pc = "entry"
  /\ DbCall
  /\ \E reply \in EntryReplies :
       CASE reply = "ok" ->
              LET row == EntryRow(db.nextId, EntryData(analysis.result))
                  next == AfterEntry(imageResults.attachments, audioResults.attachments,
                                     textInput)
              IN /\ tx' = [tx EXCEPT !.pc = next.pc, !.i = next.i, !.savedEntry = row,
                                     !.entries = Append(@, row)]
                 /\ db' = [db EXCEPT !.nextId = @ + 1]
         [] reply = "norow" -> TxThrow(ErrNoEntryId) /\ UNCHANGED db
         [] reply = "noid" ->
              LET row == EntryRow(NoId, EntryData(analysis.result)) IN
              /\ tx' = [tx EXCEPT !.pc = "rollback", !.error = ErrNoEntryId,
                                  !.savedEntry = row, !.entries = Append(@, row)]
              /\ UNCHANGED db
         [] reply = "throw" -> TxThrow(ErrDb("insert entry")) /\ UNCHANGED db
  /\ UNCHANGED <<req, pc, textInput, localFiles, imgTasks, audTasks, imageResults,
                 audioResults, analysis, outcome>>

\* Mutant of TxInsertImage: the file is uploaded inside the transaction.
TxInsertImageUploads ==
  /\ pc = "Persisting" /\ tx.pc = "image"
  /\ calls' = [calls EXCEPT !.db = @ + 1, !.upload = @ + 1]
  /\ \E reply \in DbReplies :
       IF reply = "ok"
       THEN LET row == ImageAttachmentData(tx.savedEntry.id,
                                           imageResults.attachments[tx.i + 1], tx.i)
                next == IF tx.i + 1 < Len(imageResults.attachments)
                        THEN [pc |-> "image", i |-> tx.i + 1]
                        ELSE AfterImages(audioResults.attachments, textInput)
            IN tx' = [tx EXCEPT !.pc = next.pc, !.i = next.i,
                                !.attachments = Append(@, row)]
       ELSE TxThrow(ErrDb("insert image attachment"))
  /\ UNCHANGED <<req, pc, textInput, localFiles, imgTasks, audTasks, imageResults,
                 audioResults, analysis, db, outcome>>

\* One iteration of the image loop: createEntryAttachment(attachmentData, client)
TxInsertImage ==
  /\ pc = "Persisting" /\ tx.pc = "image"
  /\ DbCall
  /\ \E reply \in DbReplies :
       IF reply = "ok"
       THEN LET row == ImageAttachmentData(tx.savedEntry.id,
                                           imageResults.attachments[tx.i + 1], tx.i)
                next == IF tx.i + 1 < Len(imageResults.attachments)
                        THEN [pc |-> "image", i |-> tx.i + 1]
                        ELSE AfterImages(audioResults.attachments, textInput)
            IN tx' = [tx EXCEPT !.pc = next.pc, !.i = next.i,
                                !.attachments = Append(@, row)]
       ELSE TxThrow(ErrDb("insert image attachment"))
  /\ UNCHANGED <<req, pc, textInput, localFiles, imgTasks, audTasks, imageResults,
                 audioResults, analysis, db, outcome>>

\* One iteration of the audio loop.
TxInsertAudio ==
  /\ pc = "Persisting" /\ tx.pc = "audio"
  /\ DbCall
  /\ \E reply \in DbReplies :
       IF reply = "ok"
       THEN LET row == AudioAttachmentData(tx.savedEntry.id,
                                           audioResults.attachments[tx.i + 1],
                                           Len(imageResults.attachments), tx.i)
                next == IF tx.i + 1 < Len(audioResults.attachments)
                        THEN [pc |-> "audio", i |-> tx.i + 1]
                        ELSE AfterAudios(textInput)
            IN tx' = [tx EXCEPT !.pc = next.pc, !.i = next.i,
                                !.attachments = Append(@, row)]
       ELSE TxThrow(ErrDb("insert audio attachment"))
  /\ UNCHANGED <<req, pc, textInput, localFiles, imgTasks, audTasks, imageResults,
                 audioResults, analysis, db, outcome>>

\* if (textInput) { ... createEntryAttachment ... }
TxInsertText ==
  /\ pc = "Persisting" /\ tx.pc = "text"
  /\ DbCall
  /\ \E reply \in DbReplies :
       IF reply = "ok"
       THEN LET row == TextAttachmentData(tx.savedEntry.id, textInput,
                                          Len(imageResults.attachments),
                                          Len(audioResults.attachments))
            IN tx' = [tx EXCEPT !.pc = "commit", !.i = 0, !.attachments = Append(@, row)]
       ELSE TxThrow(ErrDb("insert text attachment"))
  /\ UNCHANGED <<req, pc, textInput, localFiles, imgTasks, audTasks, imageResults,
                 audioResults, analysis, db, outcome>>

\* finally { client.release() }
Release(t) == [NoTx EXCEPT !.pc = "closed", !.released = t.released + 1]

\* Mutant of TxCommit: the audio failures are reported before the image
\* failures.
TxCommitAudioFailuresFirst ==
  /\ pc = "Persisting" /\ tx.pc = "commit"
  /\ DbCall
  /\ \E reply \in DbReplies :
       IF reply = "ok"
       THEN /\ db' = [db EXCEPT !.entries = @ \o tx.entries,
                                !.attachments = @ \o tx.attachments]
            /\ tx' = Release(tx)
            /\ Succeed([entry |-> tx.savedEntry,
                        failedFiles |-> audioResults.failedFiles \o
                                        imageResults.failedFiles])
       ELSE /\ TxThrow(ErrDb("commit"))
            /\ UNCHANGED <<db, outcome, pc, localFiles>>
  /\ UNCHANGED <<req, textInput, imgTasks, audTasks, imageResults,
                 audioResults, analysis>>

\* await client.query('COMMIT'); on success the transaction's rows become
\* visible, the client is released, analyzeContent returns { entry,
\* failedFiles } and the route responds.
TxCommit ==
  /\ pc = "Persisting" /\ tx.pc = "commit"
  /\ DbCall
  /\ \E reply \in DbReplies :
       IF reply = "ok"
       THEN /\ db' = [db EXCEPT !.entries = @ \o tx.entries,
                                !.attachments = @ \o tx.attachments]
            /\ tx' = Release(tx)
            /\ Succeed([entry |-> tx.savedEntry,
                        failedFiles |-> imageResults.failedFiles \o
                                        audioResults.failedFiles])
       ELSE /\ TxThrow(ErrDb("commit"))
            /\ UNCHANGED <<db, outcome, pc, localFiles>>
  /\ UNCHANGED <<req, textInput, imgTasks, audTasks, imageResults,
                 audioResults, analysis>>

\* Mutant of TxRollback: the rows inserted before the failure stay in the
\* store (the inserts ran outside the transaction).
TxRollbackKeepsRows ==
  /\ pc = "Persisting" /\ tx.pc = "rollback"
  /\ DbCall
  /\ db' = [db EXCEPT !.entries = @ \o tx.entries, !.attachments = @ \o tx.attachments]
  /\ tx' = Release(tx)
  /\ Fail(tx.error)
  /\ UNCHANGED <<req, textInput, imgTasks, audTasks, imageResults, audioResults,
                 analysis>>

\* Mutant of TxRollback: the client is not released after the rollback.
TxRollbackNoRelease ==
  /\ pc = "Persisting" /\ tx.pc = "rollback"
  /\ DbCall
  /\ \E reply \in DbReplies :
       /\ tx' = [NoTx EXCEPT !.pc = "closed"]
       /\ Fail(IF reply = "ok" THEN tx.error ELSE ErrDb("rollback"))
  /\ UNCHANGED <<req, textInput, imgTasks, audTasks, imageResults,
                 audioResults, analysis, db>>

\* catch (error) { await client.query('ROLLBACK'); throw error } finally { release }
TxRollback ==
  /\ pc = "Persisting" /\ tx.pc = "rollback"
  /\ DbCall
  /\ \E reply \in DbReplies :
       /\ tx' = Release(tx)
       /\ Fail(IF reply = "ok" THEN tx.error ELSE ErrDb("rollback"))
  /\ UNCHANGED <<req, textInput, imgTasks, audTasks, imageResults,
                 audioResults, analysis, db>>

Next ==
  \/ Validate /\ UNCHANGED pageVars
  \/ StartImages /\ UNCHANGED pageVars
  \/ \E i \in DOMAIN imgTasks : ImageUploadReturns(i) /\ UNCHANGED pageVars
  \/ \E i \in DOMAIN imgTasks : ImageExtractorReturns(i) /\ UNCHANGED pageVars
  \/ CollectImages /\ UNCHANGED pageVars
  \/ StartAudios /\ UNCHANGED pageVars
  \/ \E i \in DOMAIN audTasks : AudioUploadReturns(i) /\ UNCHANGED pageVars
  \/ \E i \in DOMAIN audTasks : AudioExtractorReturns(i) /\ UNCHANGED pageVars
  \/ CollectAudios /\ UNCHANGED pageVars
  \/ Aggregate /\ UNCHANGED pageVars
  \/ AnalyzerReturns /\ UNCHANGED pageVars
  \/ TxConnect /\ UNCHANGED pageVars
  \/ TxBegin /\ UNCHANGED pageVars
  \/ TxInsertEntry /\ UNCHANGED pageVars
  \/ TxInsertImage /\ UNCHANGED pageVars
  \/ TxInsertAudio /\ UNCHANGED pageVars
  \/ TxInsertText /\ UNCHANGED pageVars
  \/ TxCommit /\ UNCHANGED pageVars
  \/ TxRollback /\ UNCHANGED pageVars

Spec == Init /\ [][Next]_vars

\* The steps whose completion the code bounds by a deadline or that wait for
\* nothing outside the process: the axios clients of the image extractor
\* (30 s), the audio extractor (60 s) and the analyzer (15 s) settle every
\* call, and the handler's own steps always run.  The store's replies are
\* taken to arrive.  cos.putObject is created without any Timeout, so the
\* return of an upload is not among them.
BoundedSteps ==
  \/ Validate
  \/ StartImages
  \/ \E i \in DOMAIN imgTasks : ImageExtractorReturns(i)
  \/ CollectImages
  \/ StartAudios
  \/ \E i \in DOMAIN audTasks : AudioExtractorReturns(i)
  \/ CollectAudios
  \/ Aggregate
  \/ AnalyzerReturns
  \/ TxConnect
  \/ TxBegin
  \/ TxInsertEntry
  \/ TxInsertImage
  \/ TxInsertAudio
  \/ TxInsertText
  \/ TxCommit
  \/ TxRollback

(***************************************************************************)
(* The normalizer on its own: a text-only request waits for the analyzer,  *)
(* whose response is drawn from the JSON objects below; the response is    *)
(* normalized, persisted and reported.                                     *)
(***************************************************************************)
\* Bound: the longest keywords / tags / reminders array of a response.
MaxArrayLen == 6

\* Limits the prompt asks the model to respect (title<=80, summary<=120).
MaxTitleLength == 80
MaxSummaryLength == 120

\* A string of n characters (one token per character).
Chars(n) == [i \in 1..n |-> "x"]

Reverse(xs) == [i \in DOMAIN xs |-> xs[Len(xs) + 1 - i]]

\* What the model may put into an array.
ArrayEntries == {Str(<<"a">>), Str(<<" ", "b", " ">>), Str(<<" ">>), Num(1)}

\* What the model may put into `intensity` (the prompt asks for 1-10 or null).
Intensities ==
  {Undefined, Null, Num(0), Num(1), Num(10), Num(11), Num(-1),
   Str(<<>>), Str(<<"7">>), Str(<<" ", "1", "2">>), Str(<<"-", "3">>), Str(<<"high">>),
   Arr(<<>>), Arr(<<Num(5)>>), Arr(<<Num(1), Num(2)>>), Bool(TRUE)}

\* What the model may put into `completed`.
Completions ==
  {Undefined, Null, Bool(TRUE), Bool(FALSE), Str(<<"true">>), Str(<<>>), Num(1), Num(0)}

\* What the model may put into `content`.
Contents ==
  {Undefined, Null, Str(<<>>), Str(<<" ">>), Str(<<"c">>), Num(0), Num(5), Bool(TRUE),
   Arr(<<>>)}

NormArrays == {Arr(xs) : xs \in SeqsUpTo(ArrayEntries, MaxArrayLen)}

NormJson(title, summary, keywords, tags, reminders) ==
  [type |-> Str(<<"idea">>), title |-> title, content |-> Null, summary |-> summary,
   keywords |-> keywords, tags |-> tags, reminders |-> reminders]

NormJsons ==
  {NormJson(Str(<<"a">>), Null, a, IF IsArray(a) THEN Arr(Reverse(a.v)) ELSE a, a) :
     a \in NormArrays \cup {Null, Str(<<"a">>)}}
  \cup
  {NormJson(title, summary, Arr(<<>>), Arr(<<>>), Arr(<<>>)) :
     title \in {Undefined, Null, Num(80), Str(<<>>), Str(Chars(MaxTitleLength)),
                Str(Chars(MaxTitleLength + 1))},
     summary \in {Null, Str(Chars(MaxSummaryLength)), Str(Chars(MaxSummaryLength + 1))}}
  \cup
  {[intensity |-> intensity]
     @@ NormJson(Str(<<"a">>), Null, Arr(<<>>), Arr(<<>>), Arr(<<>>)) :
     intensity \in Intensities}
  \cup
  {[completed |-> completed]
     @@ NormJson(Str(<<"a">>), Null, Arr(<<>>), Arr(<<>>), Arr(<<>>)) :
     completed \in Completions}
  \cup
  {[content |-> content]
     @@ NormJson(Str(<<"a">>), Null, Arr(<<>>), Arr(<<>>), Arr(<<>>)) :
     content \in Contents}

NormInit ==
  /\ req = [text |-> Str(<<"buy milk">>), image |-> <<>>, audio |-> <<>>]
  /\ pc = "Analyzing"
  /\ textInput = Str(<<"buy milk">>)
  /\ localFiles = {}
  /\ imgTasks = <<>>
  /\ audTasks = <<>>
  /\ imageResults = EmptyBatch
  /\ audioResults = EmptyBatch
  /\ \E json \in NormJsons :
       analysis = [combinedText |-> Str(<<"buy milk">>),
                   reply |-> [kind |-> "json", json |-> json], result |-> Null]
  /\ tx = NoTx
  /\ db = [entries |-> <<>>, attachments |-> <<>>, nextId |-> 1]
  /\ calls = [upload |-> 0, image |-> 0, audio |-> 0, analyzer |-> 1, db |-> 0]
  /\ outcome = NoOutcome
  /\ Mounted

NormNext ==
  \/ ReplyArrives /\ UNCHANGED pageVars
  \/ TxConnect /\ UNCHANGED pageVars
  \/ TxBegin /\ UNCHANGED pageVars
  \/ TxInsertEntry /\ UNCHANGED pageVars
  \/ TxInsertText /\ UNCHANGED pageVars
  \/ TxCommit /\ UNCHANGED pageVars
  \/ TxRollback /\ UNCHANGED pageVars

NormSpec == NormInit /\ [][NormNext]_vars

\* The request under the scheduling the code guarantees.
FairSpec == Spec /\ WF_vars(BoundedSteps /\ UNCHANGED pageVars)

(***************************************************************************)
(* Concurrent requests.  The event loop interleaves the handlers of        *)
(* several requests at their awaits; each holds its own pooled client and  *)
(* its own transaction over the one database.  In this specification the   *)
(* per-request variables (req, pc, textInput, imageResults, audioResults,  *)
(* analysis, tx, outcome) are indexed by the request; every request has    *)
(* one processed image and a direct text and is about to persist.          *)
(***************************************************************************)
\* Bound: the number of concurrent requests.
MaxRuns == 2

Runs == 1..MaxRuns

RunText(r) == Str(<<"note", ToString(r)>>)
RunImage(r) == File("image", r, ImageMime)

RunImageResults(r) ==
  LET o == ImageOutcome(RunImage(r), CosUrl(RunImage(r)),
                        [ocr_text |-> Str(<<"ocr">>), summary |-> Null])
  IN [texts |-> <<o.text>>, attachments |-> <<o.attachment>>, failedFiles |-> <<>>]

RunAnalysis(r) ==
  LET json == [type |-> Str(<<"todo">>), content |-> RunText(r)]
      combined == Str(Join(CombinedTextParts(RunText(r), RunImageResults(r).texts, <<>>)))
  IN [combinedText |-> combined,
      reply |-> [kind |-> "json", json |-> json],
      result |-> [combinedText |-> combined] @@ NormalizeResponse(json)]

ConcInit ==
  /\ req = [r \in Runs |-> [text |-> RunText(r), image |-> <<RunImage(r)>>, audio |-> <<>>]]
  /\ pc = [r \in Runs |-> "Persisting"]
  /\ textInput = [r \in Runs |-> RunText(r)]
  /\ localFiles = {RunImage(r).path : r \in Runs}
  /\ imgTasks = <<>>
  /\ audTasks = <<>>
  /\ imageResults = [r \in Runs |-> RunImageResults(r)]
  /\ audioResults = [r \in Runs |-> EmptyBatch]
  /\ analysis = [r \in Runs |-> RunAnalysis(r)]
  /\ tx = [r \in Runs |-> [NoTx EXCEPT !.pc = "connect"]]
  /\ db = [entries |-> <<>>, attachments |-> <<>>, nextId |-> 1]
  /\ calls = [upload |-> MaxRuns, image |-> MaxRuns, audio |-> 0, analyzer |-> MaxRuns,
              db |-> 0]
  /\ outcome = [r \in Runs |-> NoOutcome]
  /\ Mounted

\* Request r's analyzeContent rejected: the route's catch block.
RunFail(r, err) ==
  /\ outcome' = [outcome EXCEPT ![r] =
                   [result |-> Null, error |-> err,
                    status |-> Or(Field(err, "statusCode"), Num(500)).v,
                    body |-> [success |-> FALSE, message |-> err.message]]]
  /\ localFiles' = localFiles \ Paths(req[r].image)
  /\ pc' = [pc EXCEPT ![r] = "Failed"]

RunThrow(r, err) == tx' = [tx EXCEPT ![r].pc = "rollback", ![r].error = err]

RunUnchanged == UNCHANGED <<req, textInput, imgTasks, audTasks, imageResults,
                            audioResults, analysis>>

RunConnect(r) ==
  /\ pc[r] = "Persisting" /\ tx[r].pc = "connect"
  /\ DbCall
  /\ \E reply \in DbReplies :
       IF reply = "ok"
       THEN /\ tx' = [tx EXCEPT ![r].pc = "begin", ![r].held = TRUE]
            /\ UNCHANGED <<pc, outcome, localFiles>>
       ELSE /\ tx' = [tx EXCEPT ![r].pc = "closed"]
            /\ RunFail(r, ErrDb("connect"))
  /\ UNCHANGED db
  /\ RunUnchanged

RunBegin(r) ==
  /\ pc[r] = "Persisting" /\ tx[r].pc = "begin"
  /\ DbCall
  /\ \E reply \in DbReplies :
       IF reply = "ok" THEN tx' = [tx EXCEPT ![r].pc = "entry"]
       ELSE RunThrow(r, ErrDb("begin"))
  /\ UNCHANGED <<pc, outcome, localFiles, db>>
  /\ RunUnchanged

\* The sequence behind entries.id is shared and is not rolled back.
RunInsertEntry(r) ==
  /\ pc[r] = "Persisting" /\ tx[r].pc = "entry"
  /\ DbCall
  /\ \E reply \in DbReplies \cup {"norow"} :
       CASE reply = "ok" ->
              LET row == EntryRow(db.nextId, EntryData(analysis[r].result))
                  next == AfterEntry(imageResults[r].attachments,
                                     audioResults[r].attachments, textInput[r])
              IN /\ tx' = [tx EXCEPT ![r].pc = next.pc, ![r].i = next.i,
                                     ![r].savedEntry = row,
                                     ![r].entries = Append(@, row)]
                 /\ db' = [db EXCEPT !.nextId = @ + 1]
         [] reply = "norow" -> RunThrow(r, ErrNoEntryId) /\ UNCHANGED db
         [] reply = "throw" -> RunThrow(r, ErrDb("insert entry")) /\ UNCHANGED db
  /\ UNCHANGED <<pc, outcome, localFiles>>
  /\ RunUnchanged

\* Mutant of RunInsertImage: the attachment is linked to the most recently
\* inserted entry of the table instead of the entry this request inserted.
RunInsertImageLatestEntry(r) ==
  /\ pc[r] = "Persisting" /\ tx[r].pc = "image"
  /\ DbCall
  /\ \E reply \in DbReplies :
       IF reply = "ok"
       THEN LET row == ImageAttachmentData(db.nextId - 1,
                                           imageResults[r].attachments[tx[r].i + 1],
                                           tx[r].i)
                next == AfterImages(audioResults[r].attachments, textInput[r])
            IN tx' = [tx EXCEPT ![r].pc = next.pc, ![r].i = next.i,
                                ![r].attachments = Append(@, row)]
       ELSE RunThrow(r, ErrDb("insert image attachment"))
  /\ UNCHANGED <<pc, outcome, localFiles, db>>
  /\ RunUnchanged

RunInsertImage(r) ==
  /\ pc[r] = "Persisting" /\ tx[r].pc = "image"
  /\ DbCall
  /\ \E reply \in DbReplies :
       IF reply = "ok"
       THEN LET row == ImageAttachmentData(tx[r].savedEntry.id,
                                           imageResults[r].attachments[tx[r].i + 1],
                                           tx[r].i)
                next == IF tx[r].i + 1 < Len(imageResults[r].attachments)
                        THEN [pc |-> "image", i |-> tx[r].i + 1]
                        ELSE AfterImages(audioResults[r].attachments, textInput[r])
            IN tx' = [tx EXCEPT ![r].pc = next.pc, ![r].i = next.i,
                                ![r].attachments = Append(@, row)]
       ELSE RunThrow(r, ErrDb("insert image attachment"))
  /\ UNCHANGED <<pc, outcome, localFiles, db>>
  /\ RunUnchanged

RunInsertText(r) ==
  /\ pc[r] = "Persisting" /\ tx[r].pc = "text"
  /\ DbCall
  /\ \E reply \in DbReplies :
       IF reply = "ok"
       THEN LET row == TextAttachmentData(tx[r].savedEntry.id, textInput[r],
                                          Len(imageResults[r].attachments),
                                          Len(audioResults[r].attachments))
            IN tx' = [tx EXCEPT ![r].pc = "commit", ![r].i = 0,
                                ![r].attachments = Append(@, row)]
       ELSE RunThrow(r, ErrDb("insert text attachment"))
  /\ UNCHANGED <<pc, outcome, localFiles, db>>
  /\ RunUnchanged

RunCommit(r) ==
  /\ pc[r] = "Persisting" /\ tx[r].pc = "commit"
  /\ DbCall
  /\ \E reply \in DbReplies :
       IF reply = "ok"
       THEN LET result == [entry |-> tx[r].savedEntry,
                           failedFiles |-> imageResults[r].failedFiles \o
                                           audioResults[r].failedFiles]
            IN /\ db' = [db EXCEPT !.entries = @ \o tx[r].entries,
                                   !.attachments = @ \o tx[r].attachments]
               /\ tx' = [tx EXCEPT ![r] = Release(tx[r])]
               /\ outcome' = [outcome EXCEPT ![r] =
                    [result |-> result, error |-> Null, status |-> 200,
                     body |-> [success |-> TRUE,
                               data |-> [id |-> result.entry.id,
                                         type |-> result.entry.type],
                               warnings |-> Filenames(result.failedFiles)]]]
               /\ localFiles' = localFiles \ Paths(req[r].image)
               /\ pc' = [pc EXCEPT ![r] = "Done"]
       ELSE /\ RunThrow(r, ErrDb("commit"))
            /\ UNCHANGED <<db, outcome, pc, localFiles>>
  /\ RunUnchanged

RunRollback(r) ==
  /\ pc[r] = "Persisting" /\ tx[r].pc = "rollback"
  /\ DbCall
  /\ \E reply \in DbReplies :
       /\ tx' = [tx EXCEPT ![r] = Release(tx[r])]
       /\ RunFail(r, IF reply = "ok" THEN tx[r].error ELSE ErrDb("rollback"))
  /\ UNCHANGED db
  /\ RunUnchanged

ConcNext ==
  \E r \in Runs :
    \/ RunConnect(r) /\ UNCHANGED pageVars
    \/ RunBegin(r) /\ UNCHANGED pageVars
    \/ RunInsertEntry(r) /\ UNCHANGED pageVars
    \/ RunInsertImage(r) /\ UNCHANGED pageVars
    \/ RunInsertText(r) /\ UNCHANGED pageVars
    \/ RunCommit(r) /\ UNCHANGED pageVars
    \/ RunRollback(r) /\ UNCHANGED pageVars

ConcSpec == ConcInit /\ [][ConcNext]_vars

(***************************************************************************)
(* useAudioRecorder.  A control function called from the page sees the     *)
(* recordingState of the latest render; a handler installed on a recorder  *)
(* sees the recordingState of the render in which startRecording was       *)
(* called.  The browser is taken to support MediaRecorder (checkSupport    *)
(* returns); recordingTime is left out.                                    *)
(***************************************************************************)
Active == {"recording", "paused"}

\* The tracks of stream j end (track.stop(), or the device goes away): a
\* recorder that is recording it is stopped by the browser, which queues its
\* stop event.
EndTracks(recs, j) ==
  IF recs[j].state \in Active
  THEN [recs EXCEPT ![j].state = "inactive", ![j].stopQueued = TRUE]
  ELSE recs

\* if (timerRef.current) { clearInterval(timerRef.current); timerRef.current = null }
ClearedIntervals(ref, running) == IF ref THEN running - 1 ELSE running

\* The body of stopRecording as seen by a closure over `state`: the recorders
\* and the timer after the call.  stop() on an inactive recorder returns.
StopRecordingIn(state) ==
  IF mediaRecorderRef # None /\ state \in Active
  THEN [recorders |-> EndTracks(recorders, mediaRecorderRef),
        timerRef |-> FALSE,
        intervals |-> ClearedIntervals(timerRef, intervals)]
  ELSE [recorders |-> recorders, timerRef |-> timerRef, intervals |-> intervals]

\* startRecording up to `await navigator.mediaDevices.getUserMedia(...)`.
StartRecording ==
  /\ startCalls < MaxStarts
  /\ startCalls' = startCalls + 1
  /\ recordingError' = "none"
  /\ streams' = [streams EXCEPT ![startCalls + 1] = "requested"]
  /\ recorders' = [recorders EXCEPT ![startCalls + 1].closure = recordingState]
  /\ UNCHANGED <<recordingState, audioBlob, mediaRecorderRef, streamRef, timerRef,
                 intervals>>

\* The rest of startRecording, from the settling of getUserMedia: it rejects;
\* or it resolves and then `new MediaRecorder` throws, mediaRecorder.start
\* throws, or the recording starts.  The first three end in the catch block,
\* which sets the error and the state 'idle'.
GetUserMediaReturns(k) ==
  /\ streams[k] = "requested"
  /\ \E reply \in {"denied", "constructor throws", "start throws", "started"} :
       CASE reply = "denied" ->
              /\ recordingError' = "cannot access the microphone"
              /\ recordingState' = "idle"
              /\ streams' = [streams EXCEPT ![k] = "none"]
              /\ UNCHANGED <<streamRef, mediaRecorderRef, recorders, timerRef, intervals>>
         [] reply = "constructor throws" ->
              /\ recordingError' = "cannot access the microphone"
              /\ recordingState' = "idle"
              /\ streams' = [streams EXCEPT ![k] = "live"]
              /\ streamRef' = k
              /\ UNCHANGED <<mediaRecorderRef, recorders, timerRef, intervals>>
         [] reply = "start throws" ->
              /\ recordingError' = "cannot access the microphone"
              /\ recordingState' = "idle"
              /\ streams' = [streams EXCEPT ![k] = "live"]
              /\ streamRef' = k
              /\ mediaRecorderRef' = k
              /\ recorders' = [recorders EXCEPT ![k].state = "inactive"]
              /\ UNCHANGED <<timerRef, intervals>>
         [] reply = "started" ->
              /\ streams' = [streams EXCEPT ![k] = "live"]
              /\ streamRef' = k
              /\ mediaRecorderRef' = k
              /\ recorders' = [recorders EXCEPT ![k].state = "recording"]
              /\ recordingState' = "recording"
              /\ timerRef' = TRUE
              /\ intervals' = intervals + 1
              /\ UNCHANGED recordingError
  /\ UNCHANGED <<audioBlob, startCalls>>

\* Mutant of PauseRecording: the state is not tested.
PauseRecordingUnguarded ==
  /\ IF mediaRecorderRef # None /\ recorders[mediaRecorderRef].state # "inactive"
     THEN /\ recorders' = [recorders EXCEPT ![mediaRecorderRef].state = "paused"]
          /\ recordingState' = "paused"
          /\ timerRef' = FALSE
          /\ intervals' = ClearedIntervals(timerRef, intervals)
     ELSE UNCHANGED <<recorders, recordingState, timerRef, intervals>>
  /\ UNCHANGED <<audioBlob, recordingError, mediaRecorderRef, streamRef, streams,
                 startCalls>>

\* pauseRecording; pause() on an inactive recorder throws InvalidStateError.
PauseRecording ==
  /\ IF /\ mediaRecorderRef # None /\ recordingState = "recording"
        /\ recorders[mediaRecorderRef].state # "inactive"
     THEN /\ recorders' = [recorders EXCEPT ![mediaRecorderRef].state = "paused"]
          /\ recordingState' = "paused"
          /\ timerRef' = FALSE
          /\ intervals' = ClearedIntervals(timerRef, intervals)
     ELSE UNCHANGED <<recorders, recordingState, timerRef, intervals>>
  /\ UNCHANGED <<audioBlob, recordingError, mediaRecorderRef, streamRef, streams,
                 startCalls>>

\* resumeRecording; resume() on an inactive recorder throws InvalidStateError.
ResumeRecording ==
  /\ IF /\ mediaRecorderRef # None /\ recordingState = "paused"
        /\ recorders[mediaRecorderRef].state # "inactive"
     THEN /\ recorders' = [recorders EXCEPT ![mediaRecorderRef].state = "recording"]
          /\ recordingState' = "recording"
          /\ timerRef' = TRUE
          /\ intervals' = intervals + 1
     ELSE UNCHANGED <<recorders, recordingState, timerRef, intervals>>
  /\ UNCHANGED <<audioBlob, recordingError, mediaRecorderRef, streamRef, streams,
                 startCalls>>

\* stopRecording called from the page.
StopRecording ==
  /\ LET stopped == StopRecordingIn(recordingState) IN
     /\ recorders' = stopped.recorders
     /\ timerRef' = stopped.timerRef
     /\ intervals' = stopped.intervals
  /\ UNCHANGED <<recordingState, audioBlob, recordingError, mediaRecorderRef, streamRef,
                 streams, startCalls>>

\* resetRecording called from the page or from App's effect.
ResetRecording ==
  /\ LET stopped == StopRecordingIn(recordingState) IN
     /\ recorders' = IF streamRef # None THEN EndTracks(stopped.recorders, streamRef)
                     ELSE stopped.recorders
     /\ intervals' = ClearedIntervals(stopped.timerRef, stopped.intervals)
  /\ streams' = IF streamRef # None THEN [streams EXCEPT ![streamRef] = "ended"]
                ELSE streams
  /\ streamRef' = None
  /\ timerRef' = FALSE
  /\ recordingState' = "idle"
  /\ audioBlob' = None
  /\ recordingError' = "none"
  /\ mediaRecorderRef' = None
  /\ UNCHANGED startCalls

\* The microphone goes away (unplugged, permission revoked): the tracks of
\* live stream k end by themselves.
TracksEnd(k) ==
  /\ streams[k] = "live"
  /\ streams' = [streams EXCEPT ![k] = "ended"]
  /\ recorders' = EndTracks(recorders, k)
  /\ UNCHANGED <<recordingState, audioBlob, recordingError, mediaRecorderRef, streamRef,
                 timerRef, intervals, startCalls>>

\* mediaRecorder.onstop of recorder k: its queued stop event is delivered.
OnStop(k) ==
  /\ recorders[k].stopQueued
  /\ audioBlob' = k
  /\ recordingState' = "stopped"
  /\ streams' = IF streamRef # None THEN [streams EXCEPT ![streamRef] = "ended"]
                ELSE streams
  /\ recorders' =
       LET delivered == [recorders EXCEPT ![k].stopQueued = FALSE] IN
       IF streamRef # None THEN EndTracks(delivered, streamRef) ELSE delivered
  /\ streamRef' = None
  /\ UNCHANGED <<recordingError, mediaRecorderRef, timerRef, intervals, startCalls>>

\* mediaRecorder.onerror of recorder k: setError and stopRecording(), the
\* stopRecording of the render in which startRecording was called.  After the
\* error event the browser stops the recorder, as the MediaStream Recording
\* specification asks, or leaves it as it is.
OnError(k) ==
  /\ recorders[k].state \in Active
  /\ recordingError' = "recording error"
  /\ \E reply \in {"stops", "continues"} :
       LET stopped == StopRecordingIn(recorders[k].closure) IN
       /\ recorders' = IF reply = "stops" THEN EndTracks(stopped.recorders, k)
                       ELSE stopped.recorders
       /\ timerRef' = stopped.timerRef
       /\ intervals' = stopped.intervals
  /\ UNCHANGED <<recordingState, audioBlob, mediaRecorderRef, streamRef, streams,
                 startCalls>>

\* The page before any request is submitted.
PageInit ==
  /\ req = [text |-> Undefined, image |-> <<>>, audio |-> <<>>]
  /\ pc = "Validating"
  /\ textInput = Null
  /\ localFiles = {}
  /\ imgTasks = <<>>
  /\ audTasks = <<>>
  /\ imageResults = Null
  /\ audioResults = Null
  /\ analysis = [combinedText |-> Null, reply |-> Null, result |-> Null]
  /\ tx = NoTx
  /\ db = [entries |-> <<>>, attachments |-> <<>>, nextId |-> 1]
  /\ calls = [upload |-> 0, image |-> 0, audio |-> 0, analyzer |-> 0, db |-> 0]
  /\ outcome = NoOutcome
  /\ Mounted

\* The hook on its own: the control functions are called in any order.
HookNext ==
  \/ StartRecording
       /\ UNCHANGED <<serverVars, imageFiles, audioFiles, processedBlobRef>>
  \/ \E k \in StartCalls : GetUserMediaReturns(k)
       /\ UNCHANGED <<serverVars, imageFiles, audioFiles, processedBlobRef>>
  \/ PauseRecording
       /\ UNCHANGED <<serverVars, imageFiles, audioFiles, processedBlobRef>>
  \/ ResumeRecording
       /\ UNCHANGED <<serverVars, imageFiles, audioFiles, processedBlobRef>>
  \/ StopRecording
       /\ UNCHANGED <<serverVars, imageFiles, audioFiles, processedBlobRef>>
  \/ ResetRecording
       /\ UNCHANGED <<serverVars, imageFiles, audioFiles, processedBlobRef>>
  \/ \E k \in StartCalls : TracksEnd(k)
       /\ UNCHANGED <<serverVars, imageFiles, audioFiles, processedBlobRef>>
  \/ \E k \in StartCalls : OnStop(k)
       /\ UNCHANGED <<serverVars, imageFiles, audioFiles, processedBlobRef>>
  \/ \E k \in StartCalls : OnError(k)
       /\ UNCHANGED <<serverVars, imageFiles, audioFiles, processedBlobRef>>

HookSpec == PageInit /\ [][HookNext]_vars

\* The browser delivers the stop events it has queued.
FairHookSpec ==
  HookSpec /\ WF_vars(\E k \in StartCalls :
                        OnStop(k) /\ UNCHANGED <<serverVars, imageFiles, audioFiles,
                                                 processedBlobRef>>)

(***************************************************************************)
(* App: the image and audio file lists and the recording effect.  A list   *)
(* entry is None for a file picked from disk and k for the recording made  *)
(* by the k-th startRecording call.                                        *)
(***************************************************************************)

\* files.slice(0, 5) in handleImageChange.
ImageSliceLimit == 5

\* files.slice(0, 3) in handleAudioChange.
AudioSliceLimit == 3

\* audioFiles.length >= 3 in the recording effect.
RecordingLimit == 3

\* upload.fields maxCount of the analyze route.
RouteMaxImages == 5
RouteMaxAudios == 3

\* handleImageChange with n files chosen.
HandleImageChange(n) ==
  /\ imageFiles' =
       IF n > 0
       THEN [i \in 1..(IF n < ImageSliceLimit THEN n ELSE ImageSliceLimit) |-> None]
       ELSE imageFiles
  /\ UNCHANGED <<hookVars, audioFiles, processedBlobRef>>

\* removeImage(index), index counted from 1.
RemoveImage(index) ==
  /\ index \in 1..Len(imageFiles)
  /\ imageFiles' = [i \in 1..(Len(imageFiles) - 1) |->
                      IF i < index THEN imageFiles[i] ELSE imageFiles[i + 1]]
  /\ UNCHANGED <<hookVars, audioFiles, processedBlobRef>>

\* Mutant of HandleAudioChange: the chosen files are not sliced.
HandleAudioChangeNoSlice(n) ==
  /\ audioFiles' = IF n > 0 THEN [i \in 1..n |-> None] ELSE audioFiles
  /\ UNCHANGED <<hookVars, imageFiles, processedBlobRef>>

\* handleAudioChange with n files chosen.
HandleAudioChange(n) ==
  /\ audioFiles' =
       IF n > 0
       THEN [i \in 1..(IF n < AudioSliceLimit THEN n ELSE AudioSliceLimit) |-> None]
       ELSE audioFiles
  /\ UNCHANGED <<hookVars, imageFiles, processedBlobRef>>

\* removeAudio(index), index counted from 1.
RemoveAudio(index) ==
  /\ index \in 1..Len(audioFiles)
  /\ audioFiles' = [i \in 1..(Len(audioFiles) - 1) |->
                      IF i < index THEN audioFiles[i] ELSE audioFiles[i + 1]]
  /\ UNCHANGED <<hookVars, imageFiles, processedBlobRef>>

\* Mutant of RecordingEffect: the length of the list is not tested.
RecordingEffectNoLimit ==
  /\ audioBlob # None
  /\ recordingState = "stopped"
  /\ processedBlobRef # audioBlob
  /\ processedBlobRef' = audioBlob
  /\ audioFiles' = Append(audioFiles, audioBlob)
  /\ ResetRecording
  /\ UNCHANGED imageFiles

\* The effect on [audioBlob, recordingState, audioFiles.length, ...]: a finished
\* recording is added to the list or discarded, and the recorder is reset.
\* getAudioFile returns a File whenever audioBlob is set.
RecordingEffect ==
  /\ audioBlob # None
  /\ recordingState = "stopped"
  /\ processedBlobRef # audioBlob
  /\ IF Len(audioFiles) >= RecordingLimit
     THEN /\ processedBlobRef' = None
          /\ UNCHANGED audioFiles
     ELSE /\ processedBlobRef' = audioBlob
          /\ audioFiles' = Append(audioFiles, audioBlob)
  /\ ResetRecording
  /\ UNCHANGED imageFiles

\* The effect on [isIdle, audioBlob].
IdleEffect ==
  /\ recordingState = "idle"
  /\ audioBlob = None
  /\ processedBlobRef # None
  /\ processedBlobRef' = None
  /\ UNCHANGED <<hookVars, imageFiles, audioFiles>>

\* No effect of the last render is still to run: React runs the effects of a
\* render before it handles the next event.
EffectsDone ==
  /\ ~(audioBlob # None /\ recordingState = "stopped" /\ processedBlobRef # audioBlob)
  /\ ~(recordingState = "idle" /\ audioBlob = None /\ processedBlobRef # None)

\* The page: the controls that are rendered and enabled, the browser's events
\* and the effects.  The cancel button (hasRecording && !isRecording &&
\* !isPaused) is rendered only in the render whose effect resets the recorder,
\* so it is never there to be clicked.
AppNext ==
  \/ \E n \in 0..MaxPicked : EffectsDone /\ HandleImageChange(n) /\ UNCHANGED serverVars
  \/ \E index \in 1..ImageSliceLimit :
       EffectsDone /\ RemoveImage(index) /\ UNCHANGED serverVars
  \/ \E n \in 0..MaxPicked :
       /\ EffectsDone
       /\ Len(audioFiles) < 3
       /\ HandleAudioChange(n)
       /\ UNCHANGED serverVars
  \/ \E index \in 1..MaxPicked : EffectsDone /\ RemoveAudio(index) /\ UNCHANGED serverVars
  \/ /\ EffectsDone
     /\ recordingState = "idle"
     /\ Len(audioFiles) < 3
     /\ StartRecording
     /\ UNCHANGED <<serverVars, imageFiles, audioFiles, processedBlobRef>>
  \/ /\ EffectsDone
     /\ recordingState = "recording"
     /\ PauseRecording
     /\ UNCHANGED <<serverVars, imageFiles, audioFiles, processedBlobRef>>
  \/ /\ EffectsDone
     /\ recordingState = "paused"
     /\ ResumeRecording
     /\ UNCHANGED <<serverVars, imageFiles, audioFiles, processedBlobRef>>
  \/ /\ EffectsDone
     /\ recordingState \in Active
     /\ StopRecording
     /\ UNCHANGED <<serverVars, imageFiles, audioFiles, processedBlobRef>>
  \/ \E k \in StartCalls :
       /\ EffectsDone
       /\ GetUserMediaReturns(k)
       /\ UNCHANGED <<serverVars, imageFiles, audioFiles, processedBlobRef>>
  \/ \E k \in StartCalls :
       /\ EffectsDone
       /\ TracksEnd(k)
       /\ UNCHANGED <<serverVars, imageFiles, audioFiles, processedBlobRef>>
  \/ \E k \in StartCalls :
       /\ EffectsDone
       /\ OnStop(k)
       /\ UNCHANGED <<serverVars, imageFiles, audioFiles, processedBlobRef>>
  \/ \E k \in StartCalls :
       /\ EffectsDone
       /\ OnError(k)
       /\ UNCHANGED <<serverVars, imageFiles, audioFiles, processedBlobRef>>
  \/ RecordingEffect /\ UNCHANGED serverVars
  \/ IdleEffect /\ UNCHANGED serverVars

AppSpec == PageInit /\ [][AppNext]_vars

(***************************************************************************)
(* Properties.                                                             *)
(***************************************************************************)
NoRows == db.entries = <<>> /\ db.attachments = <<>>

\* The rows a complete run writes: one per image attachment, one per audio
\* attachment, one for the direct text.
ExpectedRows ==
  Len(imageResults.attachments) + Len(audioResults.attachments) +
  (IF Truthy(textInput) THEN 1 ELSE 0)

DbErrors ==
  {ErrDb(w) : w \in {"connect", "begin", "insert entry", "insert image attachment",
                     "insert audio attachment", "insert text attachment", "commit",
                     "rollback"}} \cup {ErrNoEntryId}

InsertErrors ==
  {ErrDb(w) : w \in {"insert entry", "insert image attachment",
                     "insert audio attachment", "insert text attachment"}} \cup
  {ErrNoEntryId}

\* C1: transaction atomicity.  Whenever an insert of saveEntryWithAttachments
\* has failed (the transaction is about to roll back or has rolled back), and
\* more generally in every run that does not reach Done, the committed store
\* holds neither a record row nor an attachment row; and the committed store
\* never shows a partial set: it is either empty or holds the record with
\* every attachment row of the run.
C1_TransactionAtomicity ==
  /\ (tx.pc = "rollback" /\ tx.error \in InsertErrors) => NoRows
  /\ (pc = "Failed" /\ outcome.error \in InsertErrors) => NoRows
  /\ pc # "Done" => NoRows
  /\ ~NoRows => /\ pc = "Done"
                /\ Len(db.entries) = 1
                /\ Len(db.attachments) = ExpectedRows
                /\ \A j \in DOMAIN db.attachments :
                     db.attachments[j].entry_id = db.entries[1].id

\* Witness of C1: the second attachment insert (the first audio row after an
\* image row) failed, after the record and one attachment had been inserted,
\* and the run has ended.
C1_Witness ==
  /\ pc = "Failed"
  /\ outcome.error = ErrDb("insert audio attachment")
  /\ Len(imageResults.attachments) = 1
  /\ db.nextId = 2
  /\ NoRows

\* The files of a batch whose outcome is a failure.
FailedIndexes(tasks) ==
  {i \in DOMAIN tasks :
     \/ tasks[i].result.status = "rejected"
     \/ Truthy(Field(tasks[i].result.value, "error"))}

\* The position in `files` of the file an attachment was built for.
FileIndex(files, file) == CHOOSE i \in DOMAIN files : files[i] = file
NameIndex(files, name) == CHOOSE i \in DOMAIN files : files[i].originalname = name

\* Both output lists follow the input order, and together they hold every
\* file exactly once.
BatchIsolated(tasks, files, results) ==
  LET failed == FailedIndexes(tasks) IN
  /\ Cardinality(failed) = 1 =>
       /\ Len(results.attachments) = Len(files) - 1
       /\ Len(results.failedFiles) = 1
       /\ \A i \in failed : results.failedFiles[1].filename = files[i].originalname
       /\ \A i \in DOMAIN files \ failed :
            \E j \in DOMAIN results.attachments : results.attachments[j].file = files[i]
  /\ \A j, k \in DOMAIN results.attachments :
       j < k => FileIndex(files, results.attachments[j].file) <
                FileIndex(files, results.attachments[k].file)
  /\ \A j, k \in DOMAIN results.failedFiles :
       j < k => NameIndex(files, results.failedFiles[j].filename) <
                NameIndex(files, results.failedFiles[k].filename)

\* C2: batch isolation.  In a batch in which exactly one file fails, the
\* outcomes of all other files are still collected: N-1 attachments, one
\* failure entry naming the failed file; attachments and failures keep the
\* input order.
C2_BatchIsolation ==
  /\ imageResults # Null /\ Len(req.image) > 0 =>
       BatchIsolated(imgTasks, req.image, imageResults)
  /\ audioResults # Null /\ Len(req.audio) > 0 =>
       BatchIsolated(audTasks, req.audio, audioResults)

\* Witness of C2: a batch of two images whose first file failed and whose
\* second file was collected after it.
C2_Witness ==
  /\ imageResults # Null
  /\ Len(req.image) = 2
  /\ FailedIndexes(imgTasks) = {1}
  /\ Len(imageResults.attachments) = 1
  /\ imageResults.attachments[1].file = req.image[2]

\* analyzeCombinedInput has run: the corpus was built or found empty.
PastAggregation == pc \in {"Analyzing", "Persisting", "Done", "Failed"}

\* A text that is null, empty or made of whitespace only.
Blank(x) == x.t # "string" \/ \A i \in DOMAIN x.v : x.v[i] = " "

\* The extractor of the task's file was invoked and the text it returned
\* (ocr_text of an image, transcribed_text of an audio file) is blank.
ExtractedBlank(task, field) ==
  LET attachment == task.result.value.attachment IN
  attachment # Null /\ Blank(attachment[field])

EmptyCorpusStop ==
  /\ pc = "Failed"
  /\ outcome.error = ErrNoText
  /\ calls.analyzer = 0
  /\ calls.db = 0
  /\ NoRows

CategoryOutside(categories) ==
  /\ analysis.reply # Null
  /\ analysis.reply.kind = "json"
  /\ analysis.reply.json.type \notin {Str(c) : c \in categories}

UnsupportedCategoryStop ==
  /\ pc = "Failed"
  /\ outcome.error = ErrInvalidAnalysis
  /\ analysis.result = Null
  /\ tx = NoTx
  /\ calls.db = 0
  /\ NoRows

\* C4 as stated: a category outside {task, idea, mood} fails the pipeline and
\* nothing is inserted.
C4_Original ==
  CategoryOutside({<<"task">>, <<"idea">>, <<"mood">>}) => UnsupportedCategoryStop

\* C4 (amended): if the analyzer returns a category outside {todo, idea,
\* mood}, the pipeline fails with the invalid-analysis error, no fallback
\* category is guessed, and no record row and no attachment row is inserted.
C4_UnsupportedCategory ==
  CategoryOutside({<<"todo">>, <<"idea">>, <<"mood">>}) => UnsupportedCategoryStop

\* Witness of C4: the analyzer answered "task" and the run failed.
C4_Witness ==
  /\ CategoryOutside({<<"todo">>, <<"idea">>, <<"mood">>})
  /\ analysis.reply.json.type = Str(<<"task">>)
  /\ UnsupportedCategoryStop

ValidTypes == {Str(<<"todo">>), Str(<<"idea">>), Str(<<"mood">>)}

\* C5: every successful response and every record row, pending or committed,
\* has a type among 'todo', 'idea', 'mood'; no run in Persisting carries
\* another type.
C5_TypeEnumeration ==
  /\ pc = "Persisting" => analysis.result.type \in ValidTypes
  /\ pc = "Done" => /\ outcome.body.data.type \in ValidTypes
                    /\ outcome.result.entry.type \in ValidTypes
  /\ \A i \in DOMAIN tx.entries : tx.entries[i].type \in ValidTypes
  /\ \A i \in DOMAIN db.entries : db.entries[i].type \in ValidTypes

\* Witness of C5: a successful response of type mood with its committed row.
C5_Witness ==
  /\ pc = "Done"
  /\ outcome.status = 200
  /\ outcome.body.data.type = Str(<<"mood">>)
  /\ Len(db.entries) = 1

NoCalls == calls = [upload |-> 0, image |-> 0, audio |-> 0, analyzer |-> 0, db |-> 0]

\* C6: a request whose text is absent, null, empty or whitespace-only and
\* that carries no image and no audio file is rejected with status 400, and
\* no upload, extractor, analyzer or database call is made.
C6_InputEmpty ==
  (/\ Blank(req.text)
   /\ Len(req.image) = 0
   /\ Len(req.audio) = 0
   /\ pc # "Validating")
  => /\ pc = "Rejected"
     /\ outcome.status = 400
     /\ outcome.body.success = FALSE
     /\ NoCalls
     /\ imgTasks = <<>> /\ audTasks = <<>>
     /\ tx = NoTx
     /\ NoRows /\ db.nextId = 1

\* Witness of C6: a request with a whitespace-only text and no file has been
\* rejected.
C6_Witness ==
  /\ pc = "Rejected"
  /\ req.text = Str(<<" ">>)
  /\ outcome.status = 400

\* The number of files of a batch that were processed successfully.
Succeeded(tasks) == Len(tasks) - Cardinality(FailedIndexes(tasks))

PathIndex(files, path) == CHOOSE i \in DOMAIN files : Str(<<files[i].path>>) = path

\* Rows of the given modality follow the submission order of their files.
InSubmissionOrder(rows, kind, files) ==
  \A a, b \in DOMAIN rows :
    (rows[a].input_type = kind /\ rows[b].input_type = kind /\
     rows[a].display_order < rows[b].display_order)
    => PathIndex(files, rows[a].file_path) < PathIndex(files, rows[b].file_path)

\* C7: a successful run with k image attachments, m audio attachments and
\* optional direct text writes exactly k + m (+1) attachment rows whose
\* display_order values are 0, 1, ... without gap or duplicate: the images
\* first in submission order, then the audios in submission order, then the
\* text row; a file that failed processing has no row and leaves no gap.
C7_DisplayOrder ==
  pc = "Done" =>
    LET rows == db.attachments
        k == Succeeded(imgTasks)
        m == Succeeded(audTasks)
        n == k + m + (IF Truthy(textInput) THEN 1 ELSE 0)
    IN /\ Len(rows) = n
       /\ {rows[j].display_order : j \in DOMAIN rows} = 0 .. (n - 1)
       /\ \A j \in DOMAIN rows :
            LET d == rows[j].display_order IN
            /\ rows[j].input_type = "image" <=> d < k
            /\ rows[j].input_type = "audio" <=> (k <= d /\ d < k + m)
            /\ rows[j].input_type = "text" <=> d = k + m
       /\ InSubmissionOrder(rows, "image", req.image)
       /\ InSubmissionOrder(rows, "audio", req.audio)
       /\ \A i \in FailedIndexes(imgTasks) : \A j \in DOMAIN rows :
            rows[j].file_path # Str(<<req.image[i].path>>)
       /\ \A i \in FailedIndexes(audTasks) : \A j \in DOMAIN rows :
            rows[j].file_path # Str(<<req.audio[i].path>>)
       /\ Len(outcome.result.failedFiles) =
            Cardinality(FailedIndexes(imgTasks)) + Cardinality(FailedIndexes(audTasks))

\* Witness of C7: a wrong-media-type image, a valid image and an audio file,
\* extraction succeeding for the valid ones, no direct text: one failure
\* naming the bad image and two rows with display_order 0 and 1.
C7_Witness ==
  /\ pc = "Done"
  /\ ~Truthy(textInput)
  /\ Len(req.image) = 2 /\ Len(req.audio) = 1
  /\ req.image[1].mimetype = OtherMime
  /\ Len(imageResults.texts) = 1 /\ Len(audioResults.texts) = 1
  /\ outcome.result.failedFiles =
       <<[filename |-> req.image[1].originalname, error |-> ErrNotImage(req.image[1])]>>
  /\ Len(db.attachments) = 2
  /\ db.attachments[1].input_type = "image" /\ db.attachments[1].display_order = 0
  /\ db.attachments[2].input_type = "audio" /\ db.attachments[2].display_order = 1

\* The analyzer answered with JSON carrying a valid type.
AnalyzerValid ==
  /\ analysis.reply # Null
  /\ analysis.reply.kind = "json"
  /\ analysis.reply.json.type \in ValidTypes

\* C8: a run with non-blank direct text, no file and a valid analyzer
\* response succeeds (it can fail only on an error of the record store) and
\* then has written exactly one record and exactly one attachment row, of
\* modality text, processed = true, holding the pipeline's text input
\* verbatim, in display-order slot 0.
C8_TextOnly ==
  (/\ Len(req.image) = 0 /\ Len(req.audio) = 0
   /\ ~Blank(req.text)
   /\ AnalyzerValid)
  => /\ pc \in {"Persisting", "Done", "Failed"}
     /\ pc = "Failed" => outcome.error \in DbErrors
     /\ pc = "Done" =>
          /\ Len(db.entries) = 1
          /\ Len(db.attachments) = 1
          /\ LET row == db.attachments[1] IN
             /\ row.entry_id = db.entries[1].id
             /\ row.input_type = "text"
             /\ row.processed = TRUE
             /\ row.raw_text = textInput
             /\ row.raw_text = Str(Trim(req.text.v))
             /\ row.display_order = 0
             /\ row.file_path = Null /\ row.file_url = Null

\* Witness of C8: the text "buy milk", no file, the run is Done.
C8_Witness ==
  /\ pc = "Done"
  /\ Len(req.image) = 0 /\ Len(req.audio) = 0
  /\ req.text = Str(<<"buy milk">>)
  /\ Len(db.attachments) = 1
  /\ db.attachments[1].raw_text = Str(<<"buy milk">>)

InFlight(tasks) == \E i \in DOMAIN tasks : tasks[i].pc # "settled"

Listed(failedFiles, file) ==
  \E j \in DOMAIN failedFiles : failedFiles[j].filename = file.originalname

\* C10 as stated: a file whose extractor reported an in-band error appears in
\* the failures list.
C10_Original ==
  /\ imageResults # Null =>
       \A i \in DOMAIN imgTasks :
         imgTasks[i].warned => Listed(imageResults.failedFiles, req.image[i])
  /\ audioResults # Null =>
       \A i \in DOMAIN audTasks :
         audTasks[i].warned => Listed(audioResults.failedFiles, req.audio[i])

\* What a batch does with file i: a bad media type is recovered into the
\* failures list; an in-band extractor error is not: the file is kept as an
\* unprocessed attachment without text.
FileFailureHandled(task, file, results, badMime, notMedia, textField) ==
  /\ badMime =>
       /\ \E j \in DOMAIN results.failedFiles :
            results.failedFiles[j] = [filename |-> file.originalname, error |-> notMedia]
       /\ \A j \in DOMAIN results.attachments : results.attachments[j].file # file
  /\ task.warned =>
       /\ ~Listed(results.failedFiles, file)
       /\ ~Truthy(task.result.value.text)
       /\ \E j \in DOMAIN results.attachments :
            /\ results.attachments[j].file = file
            /\ results.attachments[j].processed = FALSE
            /\ results.attachments[j][textField] = Null

\* C10 (amended): a file with a bad media type is recovered into failedFiles
\* as {filename, error}; a file whose extractor reports an in-band error is
\* not listed in failedFiles but kept as a successful outcome whose attachment
\* has processed = false and no extracted text; neither aborts the pipeline:
\* a run fails only with the empty-corpus, analyzer or store errors.
C10_FileFailures ==
  /\ imageResults # Null =>
       \A i \in DOMAIN imgTasks :
         FileFailureHandled(imgTasks[i], req.image[i], imageResults,
                            ~IsImageMime(req.image[i].mimetype),
                            ErrNotImage(req.image[i]), "ocr_text")
  /\ audioResults # Null =>
       \A i \in DOMAIN audTasks :
         FileFailureHandled(audTasks[i], req.audio[i], audioResults,
                            ~IsAudioMime(req.audio[i].mimetype),
                            ErrNotAudio(req.audio[i]), "transcribed_text")
  /\ pc = "Failed" =>
       outcome.error \in
         {ErrNoText, ErrAnalyzerCall, ErrEmptyContent, ErrNonJson, ErrInvalidAnalysis}
         \cup DbErrors

\* Witness of C10: an image whose extractor reported an error and an image of
\* a bad media type, in a run that is Done: only the latter is in failedFiles.
C10_Witness ==
  /\ pc = "Done"
  /\ Len(req.image) = 2
  /\ imgTasks[1].warned
  /\ ~IsImageMime(req.image[2].mimetype)
  /\ Len(outcome.result.failedFiles) = 1
  /\ outcome.result.failedFiles[1].filename = req.image[2].originalname
  /\ Len(db.attachments) = 2

\* C11: every external call is bounded by a deadline, so a request that
\* passed validation eventually reaches Done or Failed even if an upload or an
\* extraction never returns.
C11_Original == (pc = "ProcessImages") ~> (pc \in {"Done", "Failed"})

\* The failure entries of the files of a batch that failed, in submission order.
RECURSIVE FailuresUpTo(_, _, _)
FailuresUpTo(tasks, files, n) ==
  IF n = 0 THEN <<>>
  ELSE FailuresUpTo(tasks, files, n - 1) \o
       (IF n \in FailedIndexes(tasks)
        THEN <<[filename |-> files[n].originalname, error |-> tasks[n].result.value.error]>>
        ELSE <<>>)

\* A usable text part exists: direct text or a text extracted from a file.
UsableText ==
  \/ Truthy(textInput)
  \/ \E i \in DOMAIN imgTasks : Truthy(imgTasks[i].result.value.text)
  \/ \E i \in DOMAIN audTasks : Truthy(audTasks[i].result.value.text)

AnalyzerErrors == {ErrAnalyzerCall, ErrEmptyContent, ErrNonJson, ErrInvalidAnalysis}

\* C12: file failures never by themselves fail the pipeline.  A run with a
\* usable text part fails only with an analyzer error or a store error (with
\* a valid analyzer response only with a store error), whatever number of
\* files failed; and the failure list of a run that is Done holds exactly the
\* failed files, the image failures first and then the audio failures, each
\* in submission order, and the response's warnings name them in that order.
C12_FailuresAreWarnings ==
  /\ (pc = "Failed" /\ UsableText) => outcome.error \in AnalyzerErrors \cup DbErrors
  /\ (pc = "Failed" /\ UsableText /\ AnalyzerValid) => outcome.error \in DbErrors
  /\ pc = "Done" =>
       /\ UsableText
       /\ outcome.result.failedFiles =
            FailuresUpTo(imgTasks, req.image, Len(req.image)) \o
            FailuresUpTo(audTasks, req.audio, Len(req.audio))
       /\ outcome.body.warnings = Filenames(outcome.result.failedFiles)

\* Witness of C12: two of three files failed (an image and the audio file),
\* the other image gave the only text, and the run is Done with both failures
\* listed, the image's first.
C12_Witness ==
  /\ pc = "Done"
  /\ ~Truthy(textInput)
  /\ Len(req.image) = 2 /\ Len(req.audio) = 1
  /\ FailedIndexes(imgTasks) = {2} /\ FailedIndexes(audTasks) = {1}
  /\ outcome.body.warnings = <<req.image[2].originalname, req.audio[1].originalname>>

\* The analyzer's response has been normalized.
Normalized == analysis.reply # Null /\ analysis.result # Null

\* The entries of an array that are strings with a non-whitespace character.
ValidIndexes(xs) ==
  {i \in DOMAIN xs : xs[i].t = "string" /\ \E k \in DOMAIN xs[i].v : xs[i].v[k] # " "}

\* The k-th smallest member of a set of positions.
KthValid(valid, k) ==
  CHOOSE i \in valid : Cardinality({j \in valid : j < i}) = k - 1

\* C13 as stated: a tags or keywords array of more than 5 entries is
\* normalized to exactly its first 5 entries.
C13_Original ==
  Normalized =>
    \A f \in {"keywords", "tags"} :
      LET in == analysis.reply.json[f]
          out == analysis.result[f]
      IN (IsArray(in) /\ Len(in.v) > MaxArrayEntries) =>
           out.v = SubSeq(in.v, 1, MaxArrayEntries)

\* C13 (amended): normalization keeps, in their original order, the first 5
\* entries that are non-blank strings, each trimmed; an array with more than
\* 5 such entries is truncated to exactly 5, one with fewer keeps them all.
C13_Truncation ==
  Normalized =>
    \A f \in {"keywords", "tags", "reminders"} :
      LET in == analysis.reply.json[f]
          out == analysis.result[f]
      IN IsArray(in) =>
           LET valid == ValidIndexes(in.v) IN
           /\ Cardinality(valid) > MaxArrayEntries => Len(out.v) = MaxArrayEntries
           /\ Cardinality(valid) <= MaxArrayEntries => Len(out.v) = Cardinality(valid)
           /\ \A k \in DOMAIN out.v : out.v[k] = Str(Trim(in.v[KthValid(valid, k)].v))

\* Witness of C13: a keywords array of 6 entries, one of them blank among the
\* first five, has been normalized to the 5 non-blank ones.
C13_Witness ==
  /\ Normalized
  /\ IsArray(analysis.reply.json.keywords)
  /\ Len(analysis.reply.json.keywords.v) = MaxArrayLen
  /\ analysis.reply.json.keywords.v[2] = Str(<<" ">>)
  /\ Cardinality(ValidIndexes(analysis.reply.json.keywords.v)) = MaxArrayEntries
  /\ Len(analysis.result.keywords.v) = MaxArrayEntries

\* An array of at most 5 entries, each a trimmed, non-blank string.
CleanArray(a) ==
  /\ IsArray(a)
  /\ Len(a.v) <= MaxArrayEntries
  /\ \A k \in DOMAIN a.v :
       /\ a.v[k].t = "string"
       /\ a.v[k].v # <<>>
       /\ Head(a.v[k].v) # " "
       /\ a.v[k].v[Len(a.v[k].v)] # " "

\* C14: for every analyzer response, each normalized array field (keywords,
\* tags, reminders) has at most 5 entries, each a trimmed, non-blank string;
\* so have the keywords and tags of every successful analyze response.
C14_ArrayFields ==
  /\ Normalized =>
       \A f \in {"keywords", "tags", "reminders"} : CleanArray(analysis.result[f])
  /\ pc = "Done" =>
       /\ CleanArray(outcome.body.data.keywords)
       /\ CleanArray(outcome.body.data.tags)

\* Witness of C14: a successful response whose keywords came from an array of
\* 6 entries holding an untrimmed, a blank and a non-string entry.
C14_Witness ==
  /\ pc = "Done"
  /\ IsArray(analysis.reply.json.keywords)
  /\ Len(analysis.reply.json.keywords.v) = MaxArrayLen
  /\ {Str(<<" ", "b", " ">>), Str(<<" ">>), Num(1)} \subseteq
       {analysis.reply.json.keywords.v[k] : k \in 1..MaxArrayLen}
  /\ Len(outcome.body.data.keywords.v) > 0

\* C15: every successful analyze response has a title of at most 80
\* characters and a summary of at most 120 characters, whatever the analyzer
\* returned.
C15_Original ==
  pc = "Done" =>
    /\ outcome.body.data.title.t = "string" =>
         Len(outcome.body.data.title.v) <= MaxTitleLength
    /\ outcome.body.data.summary.t = "string" =>
         Len(outcome.body.data.summary.v) <= MaxSummaryLength

\* The committed rows that stem from request r.
EntriesOf(r) == {j \in DOMAIN db.entries : db.entries[j].content = RunText(r)}

AttachmentsOf(r) ==
  {j \in DOMAIN db.attachments :
     \/ db.attachments[j].raw_text = RunText(r)
     \/ db.attachments[j].file_path = Str(<<RunImage(r).path>>)}

\* C16: across concurrently running requests, each successful run has
\* committed exactly one record row (with all its attachment rows) and each
\* run that failed, or has not finished, none; record ids are distinct; every
\* attachment row carries the entry_id of the record inserted by the same
\* run, never that of another run.
C16_ConcurrentRuns ==
  /\ \A r \in Runs :
       /\ pc[r] = "Done" =>
            /\ Cardinality(EntriesOf(r)) = 1
            /\ \A j \in EntriesOf(r) : db.entries[j].id = outcome[r].result.entry.id
            /\ Cardinality(AttachmentsOf(r)) = 2
       /\ pc[r] # "Done" => (EntriesOf(r) = {} /\ AttachmentsOf(r) = {})
       /\ \A j \in AttachmentsOf(r) :
            \E k \in EntriesOf(r) : db.attachments[j].entry_id = db.entries[k].id
  /\ Len(db.entries) = Cardinality({r \in Runs : pc[r] = "Done"})
  /\ \A j, k \in DOMAIN db.entries : db.entries[j].id = db.entries[k].id => j = k

\* Witness of C16: two interleaved runs are both Done, the one that inserted
\* its record second having committed first.
C16_Witness ==
  /\ pc[1] = "Done" /\ pc[2] = "Done"
  /\ Len(db.entries) = 2 /\ Len(db.attachments) = 4
  /\ db.entries[1].id = 2 /\ db.entries[2].id = 1

\* The error analyzeContent rejects with for a response that is no analysis.
AnalyzerFailure(kind) ==
  CASE kind = "throw" -> ErrAnalyzerCall
    [] kind = "empty" -> ErrEmptyContent
    [] kind = "nonjson" -> ErrNonJson

\* C17: if the analyzer call fails, or its response is empty or not
\* parseable as JSON, the pipeline aborts in Analyzing with that error: no
\* client is taken from the pool, no database statement is issued, no
\* transaction is begun and no record or attachment row is persisted.
C17_AnalyzerFailure ==
  (analysis.reply # Null /\ analysis.reply.kind \in {"throw", "empty", "nonjson"}) =>
    /\ pc = "Failed"
    /\ outcome.error = AnalyzerFailure(analysis.reply.kind)
    /\ outcome.status = 500
    /\ analysis.result = Null
    /\ tx = NoTx
    /\ calls.db = 0
    /\ NoRows

\* Witness of C17: the response was not JSON while an image attachment and a
\* direct text were waiting to be persisted.
C17_Witness ==
  /\ pc = "Failed"
  /\ analysis.reply # Null
  /\ analysis.reply.kind = "nonjson"
  /\ Truthy(textInput)
  /\ Len(imageResults.attachments) = 1
  /\ NoRows

Built(tasks) ==
  {i \in DOMAIN tasks :
     /\ tasks[i].pc = "settled"
     /\ Truthy(Field(tasks[i].result.value, "attachment"))}

\* The file's text is among the texts its batch handed to the aggregation.
Contributed(task, results) ==
  /\ Truthy(task.result.value.text)
  /\ \E j \in DOMAIN results.texts : results.texts[j] = task.result.value.text

\* C19 as stated: for every attachment built by a file processor, processed
\* is true if and only if the file contributed a text to the corpus.
C19_Original ==
  /\ imageResults # Null =>
       \A i \in Built(imgTasks) :
         imgTasks[i].result.value.attachment.processed <=>
           Contributed(imgTasks[i], imageResults)
  /\ audioResults # Null =>
       \A i \in Built(audTasks) :
         audTasks[i].result.value.attachment.processed <=>
           Contributed(audTasks[i], audioResults)

\* C19 (amended): for an audio attachment processed is true iff the file
\* contributed its transcript to the corpus; for an image attachment
\* processed is true iff its OCR text is non-empty, in which case that OCR
\* text is what the file contributed; an image without OCR text may still
\* contribute a text (its summary) while processed is false.
C19_Processed ==
  /\ imageResults # Null =>
       \A i \in Built(imgTasks) :
         LET o == imgTasks[i].result.value IN
         /\ o.attachment.processed <=> Truthy(o.attachment.ocr_text)
         /\ o.attachment.processed =>
              (Contributed(imgTasks[i], imageResults) /\ o.text = o.attachment.ocr_text)
         /\ (~o.attachment.processed /\ Truthy(o.text)) =>
              (Contributed(imgTasks[i], imageResults) /\ o.attachment.ocr_text = Null)
  /\ audioResults # Null =>
       \A i \in Built(audTasks) :
         LET o == audTasks[i].result.value IN
         /\ o.attachment.processed <=> Contributed(audTasks[i], audioResults)
         /\ o.attachment.processed <=> Truthy(o.attachment.transcribed_text)
         /\ o.attachment.processed => o.text = o.attachment.transcribed_text

\* Witness of C19: an image without OCR text contributed its summary, its
\* attachment being unprocessed, next to a processed audio attachment.
C19_Witness ==
  /\ imageResults # Null /\ audioResults # Null
  /\ \E i \in Built(imgTasks) :
       /\ ~imgTasks[i].result.value.attachment.processed
       /\ Contributed(imgTasks[i], imageResults)
  /\ \E i \in Built(audTasks) :
       /\ audTasks[i].result.value.attachment.processed
       /\ Contributed(audTasks[i], audioResults)

\* The texts of the files of a batch, in submission order, failed files left out.
TextsInOrder(tasks) ==
  LET failed == FailedIndexes(tasks)
      texts == [i \in DOMAIN tasks |->
                  IF i \in failed THEN Null ELSE tasks[i].result.value.text]
  IN SelectSeq(texts, LAMBDA x : x # Null)

\* Direct text, image texts and audio texts, in this order.
CorpusSources == <<textInput>> \o TextsInOrder(imgTasks) \o TextsInOrder(audTasks)

IsEmptyEntry(x) == x.t # "string" \/ x.v = <<>>

\* The number of paragraph separators in a corpus.
Separators(corpus) == Cardinality({k \in DOMAIN corpus : <<corpus[k]>> = Separator})

Aggregated == analysis.combinedText # Null

PastUpload(tasks, files, isMedia(_)) ==
  {i \in DOMAIN tasks : isMedia(files[i].mimetype) /\ tasks[i].pc \in {"extracting", "settled"}}

\* What became of file i of a batch whose upload failed.
UploadFailureSwallowed(task, file, results) ==
  /\ task.pc = "settled" =>
       /\ task.result.status = "fulfilled"
       /\ ~Truthy(Field(task.result.value, "error"))
       /\ task.result.value.attachment.file = file
       /\ task.result.value.attachment.cosUrl = Null
  /\ results # Null =>
       /\ ~Listed(results.failedFiles, file)
       /\ \E j \in DOMAIN results.attachments :
            results.attachments[j].file = file /\ results.attachments[j].cosUrl = Null

\* C21: when the upload of a file fails, the error is swallowed: the
\* extractor is still invoked for the file (with a null reference), the
\* file's outcome is a success whose attachment has a null remote reference,
\* and the file is not in the failures list.
C21_UploadFailureSwallowed ==
  /\ calls.image = Cardinality(PastUpload(imgTasks, req.image, IsImageMime))
  /\ calls.audio = Cardinality(PastUpload(audTasks, req.audio, IsAudioMime))
  /\ \A i \in PastUpload(imgTasks, req.image, IsImageMime) :
       imgTasks[i].cosUrl = Null =>
         UploadFailureSwallowed(imgTasks[i], req.image[i], imageResults)
  /\ \A i \in PastUpload(audTasks, req.audio, IsAudioMime) :
       audTasks[i].cosUrl = Null =>
         UploadFailureSwallowed(audTasks[i], req.audio[i], audioResults)

\* Witness of C21: the upload of the only image failed, the extractor read
\* its text all the same, and the run is Done with the image's attachment row
\* written without a url and no failure reported.
C21_Witness ==
  /\ pc = "Done"
  /\ Len(req.image) = 1 /\ Len(req.audio) = 0
  /\ imgTasks[1].cosUrl = Null
  /\ calls.upload = 1 /\ calls.image = 1
  /\ imageResults.texts = <<Str(<<"ocr">>)>>
  /\ outcome.result.failedFiles = <<>>
  /\ db.attachments[1].input_type = "image" /\ db.attachments[1].file_url = Null

\* The files of a batch whose declared media type does not match the modality.
Mismatched(tasks, files, isMedia(_)) ==
  {i \in DOMAIN tasks : ~isMedia(files[i].mimetype)}

\* File i with a mismatched media type: a failure outcome, reached without
\* upload and without extraction, reported with the original filename.
MismatchIsFailure(task, file, results, message) ==
  /\ task.pc = "settled"
  /\ task.cosUrl = Null /\ ~task.warned
  /\ task.result = Fulfilled(ErrorOutcome(file, message))
  /\ results # Null =>
       \E j \in DOMAIN results.failedFiles :
         results.failedFiles[j] = [filename |-> file.originalname, error |-> message]

\* C22: a file whose declared media type does not match the modality yields
\* a failure outcome carrying the original filename and the error message;
\* neither the upload nor the extractor is invoked for it; no file task ever
\* rejects, and processImages / processAudios return normally: every batch
\* that was started is collected and the run never fails with a file's error.
C22_FailureOutcome ==
  /\ \A i \in Mismatched(imgTasks, req.image, IsImageMime) :
       MismatchIsFailure(imgTasks[i], req.image[i], imageResults, ErrNotImage(req.image[i]))
  /\ \A i \in Mismatched(audTasks, req.audio, IsAudioMime) :
       MismatchIsFailure(audTasks[i], req.audio[i], audioResults, ErrNotAudio(req.audio[i]))
  /\ calls.upload = (Len(imgTasks) - Cardinality(Mismatched(imgTasks, req.image, IsImageMime)))
                    + (Len(audTasks) - Cardinality(Mismatched(audTasks, req.audio, IsAudioMime)))
  /\ calls.image <= Len(imgTasks) - Cardinality(Mismatched(imgTasks, req.image, IsImageMime))
  /\ calls.audio <= Len(audTasks) - Cardinality(Mismatched(audTasks, req.audio, IsAudioMime))
  /\ \A i \in DOMAIN imgTasks :
       imgTasks[i].pc = "settled" => imgTasks[i].result.status = "fulfilled"
  /\ \A i \in DOMAIN audTasks :
       audTasks[i].pc = "settled" => audTasks[i].result.status = "fulfilled"
  /\ pc \in {"ProcessAudios", "AwaitAudios"} => imageResults # Null
  /\ pc = "Failed" =>
       outcome.error.message \notin
         {ErrNotImage(req.image[i]) : i \in DOMAIN req.image} \cup
         {ErrNotAudio(req.audio[i]) : i \in DOMAIN req.audio}

\* Witness of C22: of two images the first has a mismatched type and is a
\* failure already while the second is with the extractor; one upload and
\* one extraction were started.
C22_Witness ==
  /\ pc = "AwaitImages"
  /\ Len(req.image) = 2
  /\ ~IsImageMime(req.image[1].mimetype)
  /\ imgTasks[1].result = Fulfilled(ErrorOutcome(req.image[1], ErrNotImage(req.image[1])))
  /\ imgTasks[2].pc = "extracting"
  /\ calls.upload = 1 /\ calls.image = 1

\* The two shapes of a per-file outcome.
IsSuccess(data) == Truthy(data.attachment) /\ ~Truthy(Field(data, "error"))
IsFailure(data) ==
  Truthy(Field(data, "error")) /\ data.text = Null /\ data.attachment = Null

SucceededIndexes(tasks) == {i \in DOMAIN tasks : IsSuccess(tasks[i].result.value)}
TextIndexes(tasks) ==
  {i \in SucceededIndexes(tasks) : Truthy(tasks[i].result.value.text)}

\* Every file of a collected batch is in exactly one of attachments and
\* failedFiles, and the texts are those of files that are in attachments.
Partitioned(tasks, files, results) ==
  LET succeeded == SucceededIndexes(tasks)
      withText == TextIndexes(tasks)
      attached == {results.attachments[k].file : k \in DOMAIN results.attachments}
      failed == {results.failedFiles[k].filename : k \in DOMAIN results.failedFiles}
      texts == {results.texts[k] : k \in DOMAIN results.texts} IN
  /\ Len(results.attachments) + Len(results.failedFiles) = Len(files)
  /\ Len(results.attachments) = Cardinality(succeeded)
  /\ Len(results.texts) = Cardinality(withText)
  /\ \A i \in DOMAIN files :
       /\ (files[i] \in attached) = (i \in succeeded)
       /\ (files[i].originalname \in failed) = (i \notin succeeded)
  /\ texts = {tasks[i].result.value.text : i \in withText}

\* C23: a per-file outcome is a success (attachment, no error) or a failure
\* (error, null text, null attachment), never both and never neither; a
\* collected batch lists every input file in exactly one of attachments and
\* failedFiles, |attachments| + |failedFiles| = N, and every text comes from
\* a file that is in attachments.
C23_SuccessOrFailure ==
  /\ \A i \in DOMAIN imgTasks :
       imgTasks[i].pc = "settled" =>
         IsSuccess(imgTasks[i].result.value) # IsFailure(imgTasks[i].result.value)
  /\ \A i \in DOMAIN audTasks :
       audTasks[i].pc = "settled" =>
         IsSuccess(audTasks[i].result.value) # IsFailure(audTasks[i].result.value)
  /\ (imageResults # Null /\ Len(req.image) > 0) =>
       Partitioned(imgTasks, req.image, imageResults)
  /\ (audioResults # Null /\ Len(req.audio) > 0) =>
       Partitioned(audTasks, req.audio, audioResults)

\* Witness of C23: a collected batch of two images, the first a failure and
\* the second a success that contributed a text.
C23_Witness ==
  /\ imageResults # Null
  /\ Len(req.image) = 2
  /\ IsFailure(imgTasks[1].result.value)
  /\ IsSuccess(imgTasks[2].result.value)
  /\ Len(imageResults.failedFiles) = 1
  /\ Len(imageResults.attachments) = 1
  /\ imageResults.attachments[1].file = req.image[2]
  /\ imageResults.texts = <<imgTasks[2].result.value.text>>

\* A batch is started as a whole: either no task exists yet or there is one
\* task per file, each past the synchronous part of its processor.
StartedTogether(tasks, files) ==
  /\ Len(tasks) \in {0, Len(files)}
  /\ \A i \in DOMAIN tasks : tasks[i].pc \in {"uploading", "extracting", "settled"}

\* The lists of a batch exist only once every task of the batch has settled,
\* and they are assembled from the settled outcomes of all of them.
Barrier(tasks, files, results) ==
  /\ InFlight(tasks) => results = Null
  /\ results # Null =>
       /\ Len(tasks) = Len(files)
       /\ AllSettled(tasks)
       /\ results = Collect(tasks, files)

\* C24: all file tasks of a batch are started before any is awaited, and the
\* texts, attachments and failures of the batch are assembled only after
\* every task of the batch has settled; while a task of the batch is in
\* flight the batch has no lists and the pipeline is waiting for that batch.
C24_Barrier ==
  /\ StartedTogether(imgTasks, req.image)
  /\ StartedTogether(audTasks, req.audio)
  /\ Barrier(imgTasks, req.image, imageResults)
  /\ Barrier(audTasks, req.audio, audioResults)
  /\ InFlight(imgTasks) => pc = "AwaitImages"
  /\ InFlight(audTasks) => pc = "AwaitAudios"

\* Witness of C24: of two images started together the first has settled and
\* the second is still with the extractor; the batch has no lists yet.
C24_Witness ==
  /\ pc = "AwaitImages"
  /\ Len(imgTasks) = 2
  /\ imgTasks[1].pc = "settled"
  /\ IsSuccess(imgTasks[1].result.value)
  /\ imgTasks[2].pc = "extracting"
  /\ imageResults = Null

\* Both media batches have completed.
BatchesCompleted ==
  /\ imageResults # Null /\ audioResults # Null
  /\ ~InFlight(imgTasks) /\ ~InFlight(audTasks)

\* The analyzer call has completed with a usable analysis.
AnalyzerCompleted ==
  /\ analysis.reply # Null /\ analysis.reply.kind = "json"
  /\ analysis.result # Null /\ Truthy(analysis.result.type)

\* C25: the analyzer is called only after both media batches have completed;
\* the transaction is started only after the analyzer call has completed
\* successfully; while the analyzer call is pending no transaction exists and
\* no database call has been made, and while a file task is in flight
\* neither the analyzer nor the database has been called.
C25_Sequential ==
  /\ calls.analyzer <= 1
  /\ calls.analyzer > 0 => BatchesCompleted
  /\ pc = "Analyzing" =>
       /\ calls.analyzer = 1
       /\ analysis.result = Null
       /\ tx = NoTx /\ calls.db = 0
  /\ (tx # NoTx \/ calls.db > 0) =>
       /\ AnalyzerCompleted
       /\ BatchesCompleted
       /\ pc # "Analyzing"
  /\ (InFlight(imgTasks) \/ InFlight(audTasks)) =>
       calls.analyzer = 0 /\ calls.db = 0 /\ tx = NoTx

\* Witness of C25: a run with an image and an audio file whose transaction
\* has begun: both batches were collected, the analyzer was called once and
\* its analysis accepted.
C25_Witness ==
  /\ pc = "Persisting" /\ tx.pc = "entry"
  /\ Len(req.image) = 1 /\ Len(req.audio) = 1
  /\ Len(imageResults.attachments) = 1 /\ Len(audioResults.attachments) = 1
  /\ calls.analyzer = 1 /\ calls.db = 2
  /\ AnalyzerCompleted

\* The transaction is past the check of savedEntry.id.
PastEntryInsert == tx.pc \in {"image", "audio", "text", "commit"}

\* C26: when the record insert returns no row or a row without an id, the
\* transaction goes to its rollback with the persistence-invariant error
\* after exactly connect, BEGIN and the record insert, with no attachment
\* insert attempted; the attachment inserts run only with a row that has an
\* id; the run then fails with that error (or the rollback's own), the
\* client released once and nothing stored.
C26_NoEntryId ==
  /\ tx.error = ErrNoEntryId =>
       /\ tx.pc = "rollback"
       /\ tx.savedEntry = Null \/ tx.savedEntry.id = NoId
       /\ tx.attachments = <<>>
       /\ calls.db = 3
  /\ (tx.savedEntry = Null \/ tx.savedEntry.id = NoId) => ~PastEntryInsert
  /\ tx.attachments # <<>> => tx.savedEntry # Null /\ tx.savedEntry.id # NoId
  /\ (pc = "Failed" /\ outcome.error = ErrNoEntryId) =>
       /\ calls.db = 4
       /\ tx.pc = "closed" /\ tx.released = 1
       /\ NoRows
       /\ outcome.status = 500

\* Witness of C26: a run with an image attachment and a direct text to store
\* failed with the persistence-invariant error after four database calls
\* (connect, BEGIN, the record insert, ROLLBACK); nothing is stored.
C26_Witness ==
  /\ pc = "Failed" /\ outcome.error = ErrNoEntryId
  /\ Len(imageResults.attachments) = 1
  /\ Truthy(textInput)
  /\ calls.db = 4
  /\ tx.released = 1
  /\ NoRows

\* Witness of the row without an id: the insert returned a row whose id is
\* null and the transaction is about to roll back.
C26_RowWithoutId ==
  /\ tx.pc = "rollback" /\ tx.error = ErrNoEntryId
  /\ tx.savedEntry # Null /\ tx.savedEntry.id = NoId
  /\ Len(tx.entries) = 1 /\ tx.attachments = <<>>
  /\ Len(imageResults.attachments) = 1

\* The number of files of a batch whose media type matches the modality.
ValidCount(files, isMedia(_)) ==
  Cardinality({i \in DOMAIN files : isMedia(files[i].mimetype)})

\* Between BEGIN and the matching COMMIT or ROLLBACK.
InTransaction == tx.pc \in {"entry", "image", "audio", "text", "commit", "rollback"}

\* C27: between BEGIN and the matching COMMIT or ROLLBACK every upload,
\* extractor and analyzer call of the run has already been made (their
\* counts are the final ones and no file task is in flight), and the
\* database calls inside the transaction are exactly the record insert and
\* one insert per attachment row.
C27_TransactionOnlyInserts ==
  InTransaction =>
    /\ pc = "Persisting"
    /\ ~InFlight(imgTasks) /\ ~InFlight(audTasks)
    /\ calls.upload = ValidCount(req.image, IsImageMime) + ValidCount(req.audio, IsAudioMime)
    /\ calls.image = ValidCount(req.image, IsImageMime)
    /\ calls.audio = ValidCount(req.audio, IsAudioMime)
    /\ calls.analyzer = 1
    /\ Len(tx.entries) <= 1
    /\ tx.pc = "entry" => calls.db = 2 /\ tx.entries = <<>> /\ tx.attachments = <<>>
    /\ PastEntryInsert => calls.db = 2 + Len(tx.entries) + Len(tx.attachments)
    /\ tx.pc = "rollback" =>
         calls.db - 2 \in {0, Len(tx.entries) + Len(tx.attachments),
                           Len(tx.entries) + Len(tx.attachments) + 1}

\* Witness of C27: inside the transaction of a run with one image and one
\* audio file, after the record insert and the image attachment insert.
C27_Witness ==
  /\ tx.pc = "audio"
  /\ Len(tx.entries) = 1 /\ Len(tx.attachments) = 1
  /\ calls = [upload |-> 2, image |-> 1, audio |-> 1, analyzer |-> 1, db |-> 4]

\* The tasks of a batch that invoked the upload: those past the media-type
\* check.
Uploaded(tasks, files, isMedia(_)) ==
  {i \in DOMAIN tasks : isMedia(files[i].mimetype)}

\* C28: nothing is retried.  The uploads number the files that passed the
\* media-type check and the extractor calls the files past their upload, one
\* each, whether or not the upload or the extraction failed; the analyzer is
\* called at most once, and a run that failed in the analyzer made exactly
\* one analyzer call and no database call; the record insert is attempted
\* once: before it two database calls were made, after its failure three,
\* and at most one record row exists.
C28_NoRetry ==
  /\ calls.upload = Cardinality(Uploaded(imgTasks, req.image, IsImageMime))
                    + Cardinality(Uploaded(audTasks, req.audio, IsAudioMime))
  /\ calls.image = Cardinality(PastUpload(imgTasks, req.image, IsImageMime))
  /\ calls.audio = Cardinality(PastUpload(audTasks, req.audio, IsAudioMime))
  /\ calls.upload <= Len(req.image) + Len(req.audio)
  /\ calls.image <= Len(req.image)
  /\ calls.audio <= Len(req.audio)
  /\ calls.analyzer <= 1
  /\ (pc = "Failed" /\ outcome.error \in AnalyzerErrors) =>
       calls.analyzer = 1 /\ calls.db = 0
  /\ tx.pc = "entry" => calls.db = 2
  /\ (tx.pc = "rollback" /\ tx.error \in {ErrDb("insert entry"), ErrNoEntryId}) =>
       calls.db = 3
  /\ (pc = "Failed" /\ outcome.error \in {ErrDb("insert entry"), ErrNoEntryId}) =>
       calls.db = 4
  /\ Len(tx.entries) <= 1 /\ Len(db.entries) <= 1 /\ db.nextId <= 2

\* Witness of C28: a run whose only image failed to upload and failed in the
\* extractor, and whose record insert failed: one upload, one extraction,
\* one analyzer call, and four database calls (connect, BEGIN, the insert,
\* ROLLBACK).
C28_Witness ==
  /\ pc = "Failed" /\ outcome.error = ErrDb("insert entry")
  /\ Len(req.image) = 1 /\ Len(req.audio) = 0
  /\ imgTasks[1].cosUrl = Null /\ imgTasks[1].warned
  /\ calls = [upload |-> 1, image |-> 1, audio |-> 0, analyzer |-> 1, db |-> 4]

\* The three outputs of a batch, all empty.
EmptyOutputs(results) ==
  /\ DOMAIN results = {"texts", "attachments", "failedFiles"}
  /\ results.texts = <<>>
  /\ results.attachments = <<>>
  /\ results.failedFiles = <<>>

\* The batch of an empty file sequence has returned.
EmptyBatchReturned(files, results) == Len(files) = 0 /\ results # Null

\* C29: processImages / processAudios of an empty file sequence return three
\* empty outputs, start no file task and invoke neither the upload nor the
\* extractor; a run without any file makes no upload at all.
C29_EmptyBatch ==
  /\ EmptyBatchReturned(req.image, imageResults) => EmptyOutputs(imageResults)
  /\ EmptyBatchReturned(req.audio, audioResults) => EmptyOutputs(audioResults)
  /\ Len(req.image) = 0 => imgTasks = <<>> /\ calls.image = 0
  /\ Len(req.audio) = 0 => audTasks = <<>> /\ calls.audio = 0
  /\ Len(req.image) = 0 =>
       calls.upload <= Len(req.audio) /\ (Len(audTasks) = 0 => calls.upload = 0)
  /\ Len(req.audio) = 0 => calls.upload <= Len(req.image)
  /\ (Len(req.image) = 0 /\ pc \in {"ProcessAudios", "AwaitAudios", "Aggregating"}) =>
       imageResults # Null
  /\ (Len(req.audio) = 0 /\ pc = "Aggregating") => audioResults # Null

\* Witness of C29: a run with an empty image batch and one audio file: the
\* image batch returned three empty outputs, and the only upload and
\* extraction are those of the audio file.
C29_Witness ==
  /\ pc = "Aggregating"
  /\ Len(req.image) = 0 /\ Len(req.audio) = 1
  /\ EmptyOutputs(imageResults)
  /\ imgTasks = <<>>
  /\ Len(audioResults.attachments) = 1
  /\ calls = [upload |-> 1, image |-> 0, audio |-> 1, analyzer |-> 0, db |-> 0]

\* The intensity values of the stored records.
StoredIntensities == {db.entries[j].intensity : j \in DOMAIN db.entries}

\* C30: the intensity of every persisted record is null or a number in the
\* range 1 to 10, whatever the analyzer returned.
C30_Original ==
  \A x \in StoredIntensities : x = Null \/ (x.t = "number" /\ x.v \in 1..10)

\* What the code does ensure of a persisted intensity: it is null or a
\* finite number other than 0, the number Number() makes of the analyzer's
\* value.
C30_FiniteOrNull ==
  \A x \in StoredIntensities :
    \/ x = Null
    \/ /\ IsFinite(x) /\ x.v # 0
       /\ x = ToNumber(Field(analysis.reply.json, "intensity"))

\* A record stored with an intensity outside 1..10.
C30_OutOfRange ==
  /\ pc = "Done"
  /\ \E x \in StoredIntensities : x # Null /\ x.v \notin 1..10

\* The analyzer's `completed` of the run, and the stored values.
ReturnedCompleted == Field(analysis.reply.json, "completed")
StoredCompleted == {db.entries[j].completed : j \in DOMAIN db.entries}

\* C31: an exactly boolean `completed` returned by the analyzer is stored
\* unchanged, true as true and false as false; every other value is stored
\* as null.
C31_Original ==
  \A x \in StoredCompleted :
    IF ReturnedCompleted.t = "boolean" THEN x = ReturnedCompleted ELSE x = Null

\* What the code does ensure: true is stored as true, and every other value,
\* false included, is stored as null.
C31_TrueOrNull ==
  \A x \in StoredCompleted :
    IF ReturnedCompleted = Bool(TRUE) THEN x = Bool(TRUE) ELSE x = Null

\* A record stored with completed null although the analyzer returned false.
C31_FalseLost ==
  /\ pc = "Done"
  /\ ReturnedCompleted = Bool(FALSE)
  /\ analysis.result.completed = Bool(FALSE)
  /\ StoredCompleted = {Null}

\* The transaction holds a client acquired from the pool.
ClientHeld == tx.pc \in {"begin", "entry", "image", "audio", "text", "commit", "rollback"}

\* The run ended after the pool handed out a client.
EndedWithClient ==
  pc \in {"Done", "Failed"} /\ calls.db > 0 /\ outcome.error # ErrDb("connect")

\* C32: COMMIT is issued only when BEGIN and the whole callback completed
\* without an error; a failed BEGIN, callback statement or COMMIT leads to
\* ROLLBACK; a run whose COMMIT succeeded issued no ROLLBACK (its database
\* calls are connect, BEGIN, the inserts and COMMIT), and only such a run has
\* stored rows; the client is held from connect until the end of the
\* transaction and released exactly once on every path, and never when
\* connect itself failed.
C32_CommitOrRollback ==
  /\ tx.pc = "commit" =>
       /\ tx.error = Null
       /\ tx.savedEntry # Null
       /\ Len(tx.attachments) = ExpectedRows
       /\ calls.db = 3 + ExpectedRows
  /\ tx.pc = "rollback" =>
       /\ tx.error \in DbErrors \ {ErrDb("connect"), ErrDb("rollback")}
       /\ NoRows
  /\ pc = "Done" =>
       /\ calls.db = 4 + ExpectedRows
       /\ Len(db.attachments) = ExpectedRows
  /\ (pc = "Failed" /\ EndedWithClient) =>
       /\ outcome.error \in DbErrors
       /\ NoRows
       /\ outcome.error = ErrDb("begin") => calls.db = 3
       /\ outcome.error = ErrDb("commit") => calls.db = 5 + ExpectedRows
  /\ tx.held = ClientHeld
  /\ ClientHeld => tx.released = 0
  /\ EndedWithClient => tx.pc = "closed" /\ tx.released = 1
  /\ (pc = "Failed" /\ outcome.error = ErrDb("connect")) =>
       calls.db = 1 /\ tx.released = 0
  /\ tx.released <= 1

\* Witness of C32: the COMMIT of a run with a direct text failed; ROLLBACK
\* followed, the client was released once and nothing is stored.
C32_Witness ==
  /\ pc = "Failed" /\ outcome.error = ErrDb("commit")
  /\ Truthy(textInput) /\ ExpectedRows = 1
  /\ calls.db = 6
  /\ tx.pc = "closed" /\ tx.released = 1
  /\ NoRows

\* A string of at least one character.
NonEmptyString(x) == x.t = "string" /\ x.v # <<>>

\* C33: every stored record has a content that is a non-empty string: the
\* analyzer's content when that is a non-empty string, and otherwise the
\* aggregated corpus text, which is never empty.
C33_ContentStored ==
  \A j \in DOMAIN db.entries :
    LET returned == Field(analysis.reply.json, "content") IN
    /\ NonEmptyString(db.entries[j].content)
    /\ NonEmptyString(analysis.combinedText)
    /\ db.entries[j].content =
         IF NonEmptyString(returned) THEN returned ELSE analysis.combinedText

\* Witness of C33: the analyzer returned an empty string as content and the
\* stored record holds the corpus text.
C33_Witness ==
  /\ pc = "Done"
  /\ Field(analysis.reply.json, "content") = Str(<<>>)
  /\ Len(db.entries) = 1
  /\ db.entries[1].content = analysis.combinedText
  /\ db.entries[1].content = textInput

\* C34: the one-second interval runs only while recordingState is
\* 'recording', and at most one interval runs at any time.
C34_Original ==
  /\ intervals <= 1
  /\ intervals > 0 => recordingState = "recording"

\* The microphone stream of startRecording call k is held open.
HeldOpen(k) == streams[k] = "live"

\* C35: whenever recordingState is 'idle' or 'stopped' no microphone stream
\* is held open: every stream obtained from getUserMedia has had its tracks
\* stopped, also when startRecording failed after acquiring the stream.
C35_Original ==
  recordingState \in {"idle", "stopped"} => \A k \in StartCalls : ~HeldOpen(k)

\* C36: when the MediaRecorder raises an error event while the state is
\* 'recording' or 'paused', the handler's stopRecording stops the recorder: the
\* state eventually leaves 'recording'/'paused' and the timer is cleared.
C36_Original ==
  (recordingError = "recording error" /\ recordingState \in Active)
    ~> (recordingState \notin Active /\ ~timerRef /\ intervals = 0)

\* What pauseRecording, resumeRecording and stopRecording may touch.
ControlFrame == <<recordingState, timerRef, intervals, recorders, audioBlob>>

\* C37: pauseRecording acts only in 'recording', resumeRecording only in
\* 'paused', stopRecording only in 'recording' or 'paused'; called in any other
\* state each leaves recordingState, the timer, the recorder and the recorded
\* blob unchanged; and 'stopped' is entered only by the recorder's stop event.
C37_GuardedControls ==
  [][ /\ (PauseRecording /\ recordingState # "recording") => UNCHANGED ControlFrame
      /\ (ResumeRecording /\ recordingState # "paused") => UNCHANGED ControlFrame
      /\ (StopRecording /\ recordingState \notin Active) => UNCHANGED ControlFrame
      /\ (recordingState # "stopped" /\ recordingState' = "stopped")
            => \E k \in StartCalls : OnStop(k) ]_vars

\* C37 witness: the state is 'idle' or 'stopped' while the recorder held by
\* mediaRecorderRef is still recording or paused, so only the guards keep
\* pauseRecording, resumeRecording and stopRecording from acting on it.
C37_Witness ==
  /\ recordingState \in {"idle", "stopped"}
  /\ mediaRecorderRef # None
  /\ recorders[mediaRecorderRef].state \in Active

====
